---------------------------- MODULE Spec2Model ----------------------------
(***************************************************************************)
(* Country enrichment of the earthquake table.                             *)
(*                                                                         *)
(* The module models                                                       *)
(*   - ComprehensiveCountryDetector (backup/comprehensive_country_         *)
(*     detector.py) and CountryDetector (backup/add_country_advanced.py):  *)
(*     the bounding-box classifiers, the geocoding cache and the retry     *)
(*     loop of get_country_with_geocoding;                                 *)
(*   - analyze_and_update_database, the batch job that drives the          *)
(*     comprehensive detector over the table and writes the output and     *)
(*     the cache file;                                                     *)
(*   - process_earthquake_database (backup/add_country_advanced.py), the   *)
(*     batch job of CountryDetector;                                       *)
(*   - get_country_from_coordinates_simple and its batch job               *)
(*     process_earthquake_data_simple (backup/add_country_simple.py);      *)
(*   - a caller that applies either detector to a sequence of points, and  *)
(*     one that applies a detector without geocoding to a grid of points;  *)
(*   - SeismicWaveFetcher.fetch_earthquake_seismic_data                    *)
(*     (seismic_wave_fetcher.py), the download of the waveforms around an  *)
(*     event.                                                              *)
(*                                                                         *)
(* Coordinates are fixed-point numbers: an integer n stands for the        *)
(* float n / Scale degrees.  A cell of a coordinate column is a record     *)
(* [kind, v]: kind "num" (a float), "nan" (a missing cell) or "str" (a     *)
(* cell float() cannot convert).                                           *)
(***************************************************************************)
EXTENDS Integers, Sequences, FiniteSets, TLC

\* Units per degree of the fixed-point coordinates (four decimals).
Scale == 10 ^ 4

\* d whole degrees as a coordinate.
Deg(d) == d * Scale

Abs(x) == IF x < 0 THEN -x ELSE x

\* Variant: the comparison excludes both ends.
In_Exclusive(x, lo, hi) == Deg(lo) < x /\ x < Deg(hi)

\* lo <= x <= hi with lo, hi in whole degrees (Python's chained comparison).
In(x, lo, hi) == Deg(lo) <= x /\ x <= Deg(hi)

Box(lat, lon, latlo, lathi, lonlo, lonhi) ==
    In(lat, latlo, lathi) /\ In(lon, lonlo, lonhi)

\* Python's None (a missing value, JSON null).
None == "None"

(***************************************************************************)
(* ComprehensiveCountryDetector: the geographical rules.                   *)
(***************************************************************************)

\* Variant: without the test "lat <= -50".
is_definitely_ocean_NoSouthern(lat, lon) ==
    \/ (In(lat, -40, 40) /\ Deg(140) <= lon /\ lon <= Deg(-120))
    \/ Box(lat, lon, -40, 40, -50, -10)
    \/ Box(lat, lon, -40, 20, 60, 100)
    \/ lat >= Deg(75)

is_definitely_ocean(lat, lon) ==
    \/ (In(lat, -40, 40) /\ Deg(140) <= lon /\ lon <= Deg(-120))
    \/ Box(lat, lon, -40, 40, -50, -10)
    \/ Box(lat, lon, -40, 20, 60, 100)
    \/ lat <= Deg(-50)
    \/ lat >= Deg(75)

\* Variant: every ocean point gets the generic name.
get_ocean_name_Generic(lat, lon) == "Ocean"

get_ocean_name(lat, lon) ==
    IF lat <= Deg(-50) THEN "Southern Ocean"
    ELSE IF lat >= Deg(75) THEN "Arctic Ocean"
    ELSE IF In(lon, 60, 100) /\ lat <= Deg(20) THEN "Indian Ocean"
    ELSE IF In(lon, -50, -10)
         THEN (IF lat >= 0 THEN "North Atlantic Ocean" ELSE "South Atlantic Ocean")
    ELSE IF In(lon, 140, 180) \/ In(lon, -180, -120)
         THEN (IF lat >= 0 THEN "North Pacific Ocean" ELSE "South Pacific Ocean")
    ELSE "Ocean"

get_high_confidence_country(lat, lon) ==
    IF \/ Box(lat, lon, 25, 49, -125, -66)
       \/ Box(lat, lon, 55, 72, -168, -141)
       \/ Box(lat, lon, 18, 23, -162, -154) THEN "United States"
    ELSE IF Box(lat, lon, 50, 84, -141, -52) THEN "Canada"
    ELSE IF Box(lat, lon, 50, 82, 30, 180) THEN "Russia"
    ELSE IF Box(lat, lon, 50, 82, -180, -169) THEN "Russia"
    ELSE IF Box(lat, lon, 20, 50, 80, 130) THEN "China"
    ELSE IF Box(lat, lon, -44, -10, 112, 154) THEN "Australia"
    ELSE IF Box(lat, lon, 24, 46, 129, 146) THEN "Japan"
    ELSE IF Box(lat, lon, -8, 6, 95, 141) THEN "Indonesia"
    ELSE IF Box(lat, lon, -34, 6, -75, -34) THEN "Brazil"
    ELSE IF is_definitely_ocean(lat, lon) THEN get_ocean_name(lat, lon)
    ELSE "Uncertain"

get_regional_classification(lat, lon) ==
    IF Box(lat, lon, 10, 25, -85, -60) THEN "Caribbean Region"
    ELSE IF Box(lat, lon, 7, 18, -92, -77) THEN "Central America"
    ELSE IF Box(lat, lon, 12, 42, 25, 65) THEN "Middle East"
    ELSE IF Box(lat, lon, -15, 25, 90, 145) THEN "Southeast Asia"
    ELSE IF Box(lat, lon, 35, 75, -15, 45)
         THEN (IF lat >= Deg(55) THEN "Northern Europe"
               ELSE IF In(lat, 45, 55) THEN "Central Europe"
               ELSE "Southern Europe")
    ELSE IF Box(lat, lon, -40, 40, -20, 55)
         THEN (IF lat >= Deg(20) THEN "Northern Africa"
               ELSE IF lat >= 0 THEN "Central Africa"
               ELSE "Southern Africa")
    ELSE IF lat <= Deg(-60) THEN "Antarctica"
    ELSE IF lat >= Deg(70) THEN "Arctic Region"
    ELSE IF Abs(lon) > Deg(90) \/ Abs(lat) > Deg(60) THEN get_ocean_name(lat, lon)
    ELSE "Unknown Region"

get_detailed_geographical_country(lat, lon) ==
    IF Box(lat, lon, 14, 33, -118, -86) THEN "Mexico"
    ELSE IF Box(lat, lon, 5, 21, 116, 127) THEN "Philippines"
    ELSE IF Box(lat, lon, -56, -17, -76, -66) THEN "Chile"
    ELSE IF Box(lat, lon, -19, 0, -82, -68) THEN "Peru"
    ELSE IF Box(lat, lon, -55, -21, -74, -53) THEN "Argentina"
    ELSE IF Box(lat, lon, 36, 42, 26, 45) THEN "Turkey"
    ELSE IF Box(lat, lon, 25, 40, 44, 64) THEN "Iran"
    ELSE IF Box(lat, lon, 6, 38, 68, 98) THEN "India"
    ELSE IF Box(lat, lon, -47, -34, 166, 179) THEN "New Zealand"
    ELSE IF Box(lat, lon, -12, -1, 140, 160) THEN "Papua New Guinea"
    ELSE IF Box(lat, lon, 36, 47, 6, 19) THEN "Italy"
    ELSE IF Box(lat, lon, 34, 42, 19, 30) THEN "Greece"
    ELSE get_regional_classification(lat, lon)

(***************************************************************************)
(* CountryDetector: the geographical rules.                                *)
(***************************************************************************)

is_major_sea_or_lake(lat, lon) ==
    \/ Box(lat, lon, 30, 46, -6, 37)
    \/ Box(lat, lon, 40, 48, 27, 42)
    \/ Box(lat, lon, 36, 47, 46, 55)
    \/ Box(lat, lon, 41, 49, -93, -76)

\* The land regions in declaration order: <<lat_min, lat_max, lon_min, lon_max>>.
land_regions ==
    << <<10, 85, -170, -50>>, <<-60, 15, -85, -30>>, <<35, 75, -15, 45>>,
       <<-15, 80, 25, 180>>, <<-40, 40, -20, 55>>, <<-50, -10, 110, 180>> >>

\* The loop returns at the first land region that holds the point.
is_in_ocean(lat, lon) ==
    LET hit == {i \in DOMAIN land_regions :
                  Box(lat, lon, land_regions[i][1], land_regions[i][2],
                      land_regions[i][3], land_regions[i][4])}
    IN IF hit = {} THEN TRUE ELSE is_major_sea_or_lake(lat, lon)

get_specific_ocean_region(lat, lon) ==
    IF Box(lat, lon, 30, 46, -6, 37) THEN "Mediterranean Sea"
    ELSE IF Box(lat, lon, 40, 48, 27, 42) THEN "Black Sea"
    ELSE IF Box(lat, lon, 36, 47, 46, 55) THEN "Caspian Sea"
    ELSE IF In(lon, 120, 180) \/ In(lon, -180, -100)
         THEN (IF lat >= Deg(40) THEN "North Pacific Ocean"
               ELSE IF lat <= Deg(-40) THEN "South Pacific Ocean"
               ELSE IF In(lat, -10, 10) THEN "Equatorial Pacific Ocean"
               ELSE "Pacific Ocean")
    ELSE IF In(lon, -80, 20)
         THEN (IF lat >= Deg(40) THEN "North Atlantic Ocean"
               ELSE IF lat <= Deg(-40) THEN "South Atlantic Ocean"
               ELSE IF In(lat, -10, 10) THEN "Equatorial Atlantic Ocean"
               ELSE "Atlantic Ocean")
    ELSE IF In(lon, 20, 120) /\ In(lat, -50, 30) THEN "Indian Ocean"
    ELSE IF lat >= Deg(70) THEN "Arctic Ocean"
    ELSE IF lat <= Deg(-50) THEN "Southern Ocean"
    ELSE "Ocean"

\* Variant: the fallback stage gives up.
get_regional_fallback_Unknown(lat, lon) == "Unknown"

get_regional_fallback(lat, lon) ==
    IF Box(lat, lon, 10, 25, -85, -60) THEN "Caribbean Region"
    ELSE IF Box(lat, lon, 7, 18, -92, -77) THEN "Central America"
    ELSE IF Box(lat, lon, 12, 42, 25, 65) THEN "Middle East"
    ELSE IF Box(lat, lon, -15, 25, 90, 145) THEN "Southeast Asia"
    ELSE IF Box(lat, lon, 55, 75, -15, 45) THEN "Northern Europe"
    ELSE IF Box(lat, lon, 45, 70, 15, 50) THEN "Eastern Europe"
    ELSE IF Box(lat, lon, 40, 60, -15, 20) THEN "Western Europe"
    ELSE IF Box(lat, lon, 15, 40, -20, 40) THEN "North Africa"
    ELSE IF Box(lat, lon, -15, 20, 25, 55) THEN "East Africa"
    ELSE IF Box(lat, lon, 0, 25, -25, 20) THEN "West Africa"
    ELSE IF Box(lat, lon, -40, -15, 10, 40) THEN "Southern Africa"
    ELSE IF Box(lat, lon, 35, 55, 45, 85) THEN "Central Asia"
    ELSE IF lat <= Deg(-60) THEN "Antarctica"
    ELSE IF lat >= Deg(75) THEN "Arctic Region"
    ELSE "Unknown Region"

\* Variant: the rule of China is declared before the rule of Japan.
get_country_from_geography_ChinaFirst(lat, lon) ==
    IF \/ Box(lat, lon, 25, 49, -125, -66)
       \/ Box(lat, lon, 55, 72, -168, -141)
       \/ Box(lat, lon, 18, 23, -162, -154) THEN "United States"
    ELSE IF Box(lat, lon, 42, 84, -141, -52) THEN "Canada"
    ELSE IF Box(lat, lon, 14, 33, -118, -86) THEN "Mexico"
    ELSE IF Box(lat, lon, 18, 54, 73, 135) THEN "China"
    ELSE IF Box(lat, lon, 24, 46, 122, 146) THEN "Japan"
    ELSE IF Box(lat, lon, -11, 6, 95, 141) THEN "Indonesia"
    ELSE IF Box(lat, lon, 5, 21, 116, 127) THEN "Philippines"
    ELSE IF Box(lat, lon, -56, -17, -76, -66) THEN "Chile"
    ELSE IF Box(lat, lon, -47, -34, 166, 179) THEN "New Zealand"
    ELSE IF Box(lat, lon, 36, 42, 26, 45) THEN "Turkey"
    ELSE IF Box(lat, lon, 36, 47, 6, 19) THEN "Italy"
    ELSE IF Box(lat, lon, 34, 42, 19, 30) THEN "Greece"
    ELSE IF Box(lat, lon, 25, 40, 44, 64) THEN "Iran"
    ELSE IF Box(lat, lon, 41, 82, 19, 180) THEN "Russia"
    ELSE IF Box(lat, lon, 6, 38, 68, 98) THEN "India"
    ELSE IF Box(lat, lon, -44, -10, 112, 154) THEN "Australia"
    ELSE IF Box(lat, lon, -12, -1, 140, 160) THEN "Papua New Guinea"
    ELSE IF Box(lat, lon, -19, 0, -82, -68) THEN "Peru"
    ELSE IF Box(lat, lon, -5, 2, -82, -75) THEN "Ecuador"
    ELSE IF Box(lat, lon, -5, 13, -80, -66) THEN "Colombia"
    ELSE IF Box(lat, lon, 0, 13, -74, -59) THEN "Venezuela"
    ELSE IF Box(lat, lon, -34, 6, -75, -30) THEN "Brazil"
    ELSE IF Box(lat, lon, -55, -21, -74, -53) THEN "Argentina"
    ELSE IF is_in_ocean(lat, lon) THEN get_specific_ocean_region(lat, lon)
    ELSE get_regional_fallback(lat, lon)

get_country_from_geography(lat, lon) ==
    IF \/ Box(lat, lon, 25, 49, -125, -66)
       \/ Box(lat, lon, 55, 72, -168, -141)
       \/ Box(lat, lon, 18, 23, -162, -154) THEN "United States"
    ELSE IF Box(lat, lon, 42, 84, -141, -52) THEN "Canada"
    ELSE IF Box(lat, lon, 14, 33, -118, -86) THEN "Mexico"
    ELSE IF Box(lat, lon, 24, 46, 122, 146) THEN "Japan"
    ELSE IF Box(lat, lon, -11, 6, 95, 141) THEN "Indonesia"
    ELSE IF Box(lat, lon, 5, 21, 116, 127) THEN "Philippines"
    ELSE IF Box(lat, lon, -56, -17, -76, -66) THEN "Chile"
    ELSE IF Box(lat, lon, -47, -34, 166, 179) THEN "New Zealand"
    ELSE IF Box(lat, lon, 36, 42, 26, 45) THEN "Turkey"
    ELSE IF Box(lat, lon, 36, 47, 6, 19) THEN "Italy"
    ELSE IF Box(lat, lon, 34, 42, 19, 30) THEN "Greece"
    ELSE IF Box(lat, lon, 25, 40, 44, 64) THEN "Iran"
    ELSE IF Box(lat, lon, 18, 54, 73, 135) THEN "China"
    ELSE IF Box(lat, lon, 41, 82, 19, 180) THEN "Russia"
    ELSE IF Box(lat, lon, 6, 38, 68, 98) THEN "India"
    ELSE IF Box(lat, lon, -44, -10, 112, 154) THEN "Australia"
    ELSE IF Box(lat, lon, -12, -1, 140, 160) THEN "Papua New Guinea"
    ELSE IF Box(lat, lon, -19, 0, -82, -68) THEN "Peru"
    ELSE IF Box(lat, lon, -5, 2, -82, -75) THEN "Ecuador"
    ELSE IF Box(lat, lon, -5, 13, -80, -66) THEN "Colombia"
    ELSE IF Box(lat, lon, 0, 13, -74, -59) THEN "Venezuela"
    ELSE IF Box(lat, lon, -34, 6, -75, -30) THEN "Brazil"
    ELSE IF Box(lat, lon, -55, -21, -74, -53) THEN "Argentina"
    ELSE IF is_in_ocean(lat, lon) THEN get_specific_ocean_region(lat, lon)
    ELSE get_regional_fallback(lat, lon)

(***************************************************************************)
(* add_country_simple.py: the geographical rules.                          *)
(***************************************************************************)

\* The continental regions in declaration order.
continental_regions ==
    << <<25, 85, -170, -50>>, <<-60, 15, -85, -30>>, <<35, 75, -15, 45>>,
       <<5, 80, 25, 180>>, <<-40, 40, -20, 55>>, <<-50, 5, 110, 180>> >>

\* Variant: no point is taken for ocean.
is_likely_ocean_Never(lat, lon) == FALSE

is_likely_ocean(lat, lon) ==
    ~\E i \in DOMAIN continental_regions :
        Box(lat, lon, continental_regions[i][1], continental_regions[i][2],
            continental_regions[i][3], continental_regions[i][4])

get_ocean_region(lat, lon) ==
    IF lon >= Deg(120) \/ lon <= Deg(-120)
    THEN (IF lat >= 0 THEN "North Pacific Ocean" ELSE "South Pacific Ocean")
    ELSE IF In(lon, -70, 20)
    THEN (IF lat >= 0 THEN "North Atlantic Ocean" ELSE "South Atlantic Ocean")
    ELSE IF In(lon, 20, 120) /\ lat <= Deg(30) THEN "Indian Ocean"
    ELSE IF lat >= Deg(70) THEN "Arctic Ocean"
    ELSE IF lat <= Deg(-50) THEN "Southern Ocean"
    ELSE "Ocean"

\* get_country_from_coordinates_simple once lat and lon are floats.
simple_rules(lat, lon) ==
    IF is_likely_ocean(lat, lon) THEN get_ocean_region(lat, lon)
    ELSE IF Box(lat, lon, 25, 85, -170, -50)
    THEN (IF lat >= Deg(60) THEN "Canada/Alaska"
          ELSE IF lat >= Deg(49) /\ lon <= Deg(-95) THEN "Canada"
          ELSE IF lat >= Deg(25) /\ In(lon, -125, -66)
          THEN (IF lon >= Deg(-95) THEN "United States (Eastern)"
                ELSE "United States (Western)")
          ELSE IF Box(lat, lon, 15, 32, -118, -86) THEN "Mexico"
          ELSE "North America")
    ELSE IF Box(lat, lon, -60, 15, -85, -30)
    THEN (IF lat >= Deg(5) THEN "Northern South America"
          ELSE IF In(lat, -20, 5) THEN "Central South America"
          ELSE "Southern South America")
    ELSE IF Box(lat, lon, 35, 75, -15, 45)
    THEN (IF lat >= Deg(60) THEN "Northern Europe"
          ELSE IF In(lat, 45, 60) THEN "Central Europe"
          ELSE "Southern Europe")
    ELSE IF Box(lat, lon, 5, 80, 25, 180)
    THEN (IF lat >= Deg(55) THEN "Northern Asia/Russia"
          ELSE IF Box(lat, lon, 35, 55, 70, 140) THEN "Central Asia"
          ELSE IF Box(lat, lon, 20, 50, 100, 145) THEN "East Asia"
          ELSE IF Box(lat, lon, 5, 35, 65, 100) THEN "South Asia"
          ELSE IF Box(lat, lon, 10, 40, 25, 65) THEN "Middle East"
          ELSE "Asia")
    ELSE IF Box(lat, lon, -40, 40, -20, 55)
    THEN (IF lat >= Deg(20) THEN "Northern Africa"
          ELSE IF In(lat, 0, 20) THEN "Central Africa"
          ELSE "Southern Africa")
    ELSE IF Box(lat, lon, -50, 5, 110, 180)
    THEN (IF Box(lat, lon, -30, -10, 110, 155) THEN "Australia"
          ELSE "Oceania/Pacific Islands")
    ELSE IF Box(lat, lon, -60, 60, 130, 180) THEN "Pacific Ocean Region"
    ELSE IF Box(lat, lon, -60, 60, -180, -120) THEN "Pacific Ocean Region"
    ELSE IF lat <= Deg(-60) THEN "Antarctica"
    ELSE IF lat >= Deg(75) THEN "Arctic"
    ELSE "Unknown Region"

(***************************************************************************)
(* Cells, cache keys, the cache file.                                      *)
(***************************************************************************)

Num(n) == [kind |-> "num", v |-> n]
NaN == [kind |-> "nan", v |-> 0]
Str == [kind |-> "str", v |-> 0]

\* Variant: no cell is taken for missing.
isna_Never(x) == FALSE

\* pd.isna(x)
isna(x) == x.kind = "nan"

\* float(x) raises ValueError or TypeError
float_raises(x) == x.kind = "str"

\* a = q * unit + r: q rounded to the nearest integer, ties to even.
RoundHalfEven(a, unit) ==
    LET q == a \div unit
        r == a % unit
    IN IF 2 * r < unit THEN q
       ELSE IF 2 * r > unit THEN q + 1
       ELSE IF q % 2 = 0 THEN q ELSE q + 1

\* f"{x:.Nf}": the sign and the digits of |x| rounded to N decimals; a small
\* negative x keeps its sign ("-0.00").
FormatFixed(x, decimals) ==
    <<x < 0, RoundHalfEven(Abs(x), Scale \div (10 ^ decimals))>>

\* Decimals of the cache key: "{lat:.2f},{lon:.2f}" and "{lat:.3f},{lon:.3f}".
KeyDecimals(c) == IF c = "Comprehensive" THEN 2 ELSE 3

cache_key(c, lat, lon) ==
    <<FormatFixed(lat, KeyDecimals(c)), FormatFixed(lon, KeyDecimals(c))>>

\* Default of the max_retries parameter of get_country_with_geocoding.
DefaultMaxRetries(c) == IF c = "Comprehensive" THEN 2 ELSE 3

\* A file: absent, unreadable (truncated or not JSON), or a JSON object given
\* by its members.
NoFile == [exists |-> FALSE, readable |-> FALSE, members |-> {}]
Corrupt == [exists |-> TRUE, readable |-> FALSE, members |-> {}]

\* json.dump of the cache: one member per key, None written as null.
JsonDump(cache) ==
    [exists |-> TRUE, readable |-> TRUE,
     members |-> {[key |-> k, null |-> cache[k] = None,
                   str |-> IF cache[k] = None THEN "" ELSE cache[k]] : k \in DOMAIN cache}]

\* json.load of a readable cache file.
JsonLoad(file) ==
    [k \in {m.key : m \in file.members} |->
        LET m == CHOOSE m \in file.members : m.key = k
        IN IF m.null THEN None ELSE m.str]

\* The output file: absent, or the rows df.to_csv wrote.
NoOutput == [exists |-> FALSE, rows |-> <<>>]
to_csv(table) == [exists |-> TRUE, rows |-> table]

EmptyCache == [k \in {} |-> None]

\* "len(self.geocoding_cache) % 10 == 0": the cache file is written when the
\* number of entries is a multiple of 10.
SaveCacheEvery == 10

\* "processed_count % 100 == 0": the output is written every 100 rows.
SaveEvery == 100

Count(f, k) == IF k \in DOMAIN f THEN f[k] ELSE 0

Put(f, k, v) == [x \in DOMAIN f \cup {k} |-> IF x = k THEN v ELSE f[x]]

(***************************************************************************)
(* The reverse-geocoding backend and pycountry.                            *)
(***************************************************************************)

\* What one call of geolocator.reverse can do: raise GeocoderTimedOut,
\* GeocoderServiceError or another exception; return None; return a location
\* without an address; return a location with an address block.
Raises == {"GeocoderTimedOut", "GeocoderServiceError", "Exception"}
Addresses == {"addr_country", "addr_code_only", "addr_no_country"}
Outcomes == Raises \cup {"no_location", "no_address"} \cup Addresses

\* location.raw['address'] of the three address blocks.
Address(o) ==
    IF o = "addr_country"
    THEN [country |-> "Turkey", country_name |-> None, country_code |-> "tr"]
    ELSE IF o = "addr_code_only"
    THEN [country |-> None, country_name |-> None, country_code |-> "tr"]
    ELSE [country |-> None, country_name |-> None, country_code |-> None]

\* Python truthiness of a str-or-None value.
Truthy(v) == v # None /\ v # ""

\* address.get('country') or address.get('country_name') or address.get('country_code')
ExtractCountry(a) ==
    IF Truthy(a.country) THEN a.country
    ELSE IF Truthy(a.country_name) THEN a.country_name
    ELSE a.country_code

\* pycountry.countries.lookup(name).name; a LookupError leaves the name.
pycountry_lookup(name) ==
    IF name \in {"tr", "Turkey"} THEN "Turkey" ELSE name

(***************************************************************************)
(* State.                                                                  *)
(***************************************************************************)

VARIABLES
    GEOPY_AVAILABLE,      \* the module imported geopy (and with it time)
    PYCOUNTRY_AVAILABLE,  \* the module imported pycountry
    pc,                   \* where the program is
    detector,             \* [cls, use_geocoding, cache_file] of the detector
    geocoding_cache,      \* detector.geocoding_cache: key -> country or None
    cache_disk,           \* content of the cache file
    output_disk,          \* content of the output file
    call,                 \* the detector call in progress
    requests,             \* key -> number of geolocator.reverse calls so far
    loop_entries,         \* key -> the entries of the request loop: for each,
                          \*   the method the caller invoked and max_retries
    loaded_keys,          \* the keys the constructor read from the cache file
    calls_made,           \* detector calls the caller has made
    args,                 \* arguments and progress flags of the batch job
    input,                \* the rows read from the input file (after head())
    df,                   \* the table: rows [Latitude, Longitude, Country]
    rows_to_process,      \* the indices selected for processing, in order
    pos,                  \* position of the row loop in rows_to_process
    processed_count,
    labels,               \* the labels assigned by the row loop, in order
    io_log,               \* the writes of the output file the run attempted
    previous_output       \* in a second run: the output file of the first run

\* SeismicWaveFetcher.fetch_earthquake_seismic_data (seismic_wave_fetcher.py).
VARIABLES
    fetch_pc,             \* where fetch_earthquake_seismic_data is
    earthquake_time,      \* the time of the event, in days
    clients,              \* the networks whose client answers get_stations
    stations,             \* the list get_nearby_stations returned
    station_i,            \* position of the station loop
    fetch_log,            \* the calls of fetch_seismic_data so far, in order
    written,              \* the waveform files whose write completed, in order
    data_fetched,         \* earthquake_metadata['data_fetched']
    metadata_log          \* the writes of metadata.json so far

env == <<GEOPY_AVAILABLE, PYCOUNTRY_AVAILABLE>>
det == <<detector, geocoding_cache, cache_disk, call, requests, loop_entries, loaded_keys>>
batch == <<args, input, df, rows_to_process, pos, processed_count, labels, io_log, output_disk,
           previous_output>>
seismic == <<fetch_pc, earthquake_time, clients, stations, station_i, fetch_log, written,
             data_fetched, metadata_log>>
vars == <<env, pc, det, calls_made, batch, seismic>>

NoKey == <<<<FALSE, 0>>, <<FALSE, 0>>>>

IdleCall ==
    [pc |-> "idle", entry |-> "", lat |-> NaN, lon |-> NaN, key |-> NoKey,
     attempt |-> 0, max_retries |-> 0, trace |-> <<>>, result |-> None]

Event(kind, ms, outcome) == [kind |-> kind, ms |-> ms, outcome |-> outcome]

\* time.sleep(0.3) and time.sleep(0.2) before each request, in milliseconds.
ThrottleMs(c) == IF c = "Comprehensive" THEN 300 ELSE 200

\* Variant: a fixed delay of one second.
BackoffMs_Fixed(attempt) == 1000

\* time.sleep(2 ** attempt), in milliseconds.
BackoffMs(attempt) == 1000 * (2 ^ attempt)

\* standardize_country_name
standardize_country_name(country_name) ==
    IF ~PYCOUNTRY_AVAILABLE \/ ~Truthy(country_name) THEN country_name
    ELSE pycountry_lookup(country_name)

\* The label get_country_from_coordinates returns once get_country_with_geocoding
\* has returned v.
\* Variant: no result is labeled "Unknown" instead of falling back to the rules.
AfterGeocoding_Unknown(c, v, lat, lon) ==
    IF Truthy(v)
    THEN (IF c = "Comprehensive" THEN standardize_country_name(v) ELSE v)
    ELSE "Unknown"

AfterGeocoding(c, v, lat, lon) ==
    IF Truthy(v)
    THEN (IF c = "Comprehensive" THEN standardize_country_name(v) ELSE v)
    ELSE IF c = "Comprehensive" THEN get_detailed_geographical_country(lat, lon)
    ELSE get_country_from_geography(lat, lon)

\* What the entry point hands to its caller when get_country_with_geocoding
\* returns v.
Returned(entry, c, v, lat, lon) ==
    IF entry = "geocoding" THEN v ELSE AfterGeocoding(c, v, lat, lon)

\* The entries of the request loop for a key so far.
Entries(key) == IF key \in DOMAIN loop_entries THEN loop_entries[key] ELSE <<>>

\* Variant: a cached None is taken for a miss.
CacheHit_NegativeMiss(key) ==
    key \in DOMAIN geocoding_cache /\ geocoding_cache[key] # None

\* "cache_key in self.geocoding_cache"
CacheHit(key) == key \in DOMAIN geocoding_cache

\* get_country_with_geocoding up to the first request: a cache hit returns the
\* cached value, a miss enters the request loop.
EnterGeocoding(entry, lat, lon, max_retries) ==
    LET c == detector.cls
        key == cache_key(c, lat, lon)
        t == <<Event("cache_lookup", 0, "")>>
    IN IF CacheHit(key)
       THEN /\ call' = [IdleCall EXCEPT !.pc = "returned", !.entry = entry,
                          !.lat = Num(lat), !.lon = Num(lon), !.key = key,
                          !.max_retries = max_retries, !.trace = t,
                          !.result = Returned(entry, c, geocoding_cache[key], lat, lon)]
            /\ UNCHANGED loop_entries
       ELSE /\ call' = [IdleCall EXCEPT !.pc = "attempt", !.entry = entry,
                          !.lat = Num(lat), !.lon = Num(lon), !.key = key,
                          !.max_retries = max_retries, !.trace = t]
            /\ loop_entries' = Put(loop_entries, key,
                    Append(Entries(key), [entry |-> entry, max_retries |-> max_retries]))

ReturnLabel(latc, lonc, label) ==
    /\ call' = [IdleCall EXCEPT !.pc = "returned", !.entry = "coordinates",
                  !.lat = latc, !.lon = lonc, !.result = label]
    /\ UNCHANGED loop_entries

\* Variant: geocoding is tried before the high-confidence rules.
Comprehensive_GeocodingFirst(latc, lonc) ==
    IF isna(latc) \/ isna(lonc) THEN ReturnLabel(latc, lonc, "Unknown")
    ELSE IF float_raises(latc) \/ float_raises(lonc) THEN ReturnLabel(latc, lonc, "Unknown")
    ELSE IF detector.use_geocoding
    THEN EnterGeocoding("coordinates", latc.v, lonc.v, DefaultMaxRetries("Comprehensive"))
    ELSE LET country == get_high_confidence_country(latc.v, lonc.v)
         IN IF country # "Uncertain" THEN ReturnLabel(latc, lonc, country)
            ELSE ReturnLabel(latc, lonc, get_detailed_geographical_country(latc.v, lonc.v))

\* Variant: the geocoding stage does not test use_geocoding.
Comprehensive_IgnoresFlag(latc, lonc) ==
    IF isna(latc) \/ isna(lonc) THEN ReturnLabel(latc, lonc, "Unknown")
    ELSE IF float_raises(latc) \/ float_raises(lonc) THEN ReturnLabel(latc, lonc, "Unknown")
    ELSE LET country == get_high_confidence_country(latc.v, lonc.v)
         IN IF country # "Uncertain" THEN ReturnLabel(latc, lonc, country)
            ELSE EnterGeocoding("coordinates", latc.v, lonc.v, DefaultMaxRetries("Comprehensive"))

\* Variant: without geocoding the label of the high-confidence stage is
\* returned as it is.
Comprehensive_KeepsUncertain(latc, lonc) ==
    IF isna(latc) \/ isna(lonc) THEN ReturnLabel(latc, lonc, "Unknown")
    ELSE IF float_raises(latc) \/ float_raises(lonc) THEN ReturnLabel(latc, lonc, "Unknown")
    ELSE LET country == get_high_confidence_country(latc.v, lonc.v)
         IN IF country # "Uncertain" \/ ~detector.use_geocoding
            THEN ReturnLabel(latc, lonc, country)
            ELSE EnterGeocoding("coordinates", latc.v, lonc.v, DefaultMaxRetries("Comprehensive"))

\* ComprehensiveCountryDetector.get_country_from_coordinates up to the first
\* request.
Comprehensive_get_country_from_coordinates(latc, lonc) ==
    IF isna(latc) \/ isna(lonc) THEN ReturnLabel(latc, lonc, "Unknown")
    ELSE IF float_raises(latc) \/ float_raises(lonc) THEN ReturnLabel(latc, lonc, "Unknown")
    ELSE LET country == get_high_confidence_country(latc.v, lonc.v)
         IN IF country # "Uncertain" THEN ReturnLabel(latc, lonc, country)
            ELSE IF detector.use_geocoding
            THEN EnterGeocoding("coordinates", latc.v, lonc.v, DefaultMaxRetries("Comprehensive"))
            ELSE ReturnLabel(latc, lonc, get_detailed_geographical_country(latc.v, lonc.v))

\* CountryDetector.get_country_from_coordinates up to the first request.
Advanced_get_country_from_coordinates(latc, lonc) ==
    IF isna(latc) \/ isna(lonc) THEN ReturnLabel(latc, lonc, "Unknown")
    ELSE IF float_raises(latc) \/ float_raises(lonc) THEN ReturnLabel(latc, lonc, "Unknown")
    ELSE IF detector.use_geocoding
    THEN EnterGeocoding("coordinates", latc.v, lonc.v, DefaultMaxRetries("Advanced"))
    ELSE ReturnLabel(latc, lonc, get_country_from_geography(latc.v, lonc.v))

get_country_from_coordinates(latc, lonc) ==
    IF detector.cls = "Comprehensive"
    THEN Comprehensive_get_country_from_coordinates(latc, lonc)
    ELSE Advanced_get_country_from_coordinates(latc, lonc)

\* "self.cache_file and len(self.geocoding_cache) % 10 == 0"
SaveCacheDue(cache) == detector.cache_file /\ Cardinality(DOMAIN cache) % SaveCacheEvery = 0

\* save_cache with the cache as it is when it is called: the file after it.
\* A write that fails is caught and logged; open(..., 'w') has truncated the
\* file by then.
save_cache(cache, disk, write_ok) ==
    IF SaveCacheDue(cache)
    THEN (IF write_ok THEN JsonDump(cache) ELSE Corrupt)
    ELSE disk

WriteChoices(cache) == IF SaveCacheDue(cache) THEN BOOLEAN ELSE {TRUE}

(***************************************************************************)
(* The request loop of get_country_with_geocoding.                         *)
(***************************************************************************)

\* The response holds a country: "location and location.raw.get('address')"
\* and then "if country".
CountryFound(o) == o \in Addresses /\ Truthy(ExtractCountry(Address(o)))

\* Variant: the test is "attempt < max_retries".
BacksOff_OffByOne(o, attempt, max_retries) ==
    /\ o \in {"GeocoderTimedOut", "GeocoderServiceError"}
    /\ attempt < max_retries

\* The except clause of GeocoderTimedOut and GeocoderServiceError sleeps when
\* "attempt < max_retries - 1", and breaks otherwise.
BacksOff(o, attempt, max_retries) ==
    /\ o \in {"GeocoderTimedOut", "GeocoderServiceError"}
    /\ attempt < max_retries - 1

\* "for attempt in range(max_retries)": there is a next pass.
HasNextPass(attempt, max_retries) == attempt + 1 < max_retries

\* The country as the loop caches and returns it: CountryDetector standardizes
\* it with pycountry first, ComprehensiveCountryDetector caches the raw name.
CachedCountry(c, o) ==
    LET raw == ExtractCountry(Address(o))
    IN IF c = "Advanced" /\ PYCOUNTRY_AVAILABLE THEN pycountry_lookup(raw) ELSE raw

\* The branch of the loop body a request with outcome o takes: the country is
\* cached and returned, the first except clause, the second except clause, or
\* the "break" after a response without a country.
Branch(o) ==
    IF CountryFound(o) THEN "country"
    ELSE IF o \in {"GeocoderTimedOut", "GeocoderServiceError"} THEN "timeout_or_service_error"
    ELSE IF o \in Raises THEN "other_exception"
    ELSE "no_country"

\* One pass of the loop: the throttle sleep, the request with outcome o, and
\* what follows it up to the next request or the return.
Attempt(o, write_ok) ==
    LET c == detector.cls
        key == call.key
        lat == call.lat.v
        lon == call.lon.v
        t == call.trace \o <<Event("throttle", ThrottleMs(c), ""), Event("request", 0, Branch(o))>>
    IN /\ call.pc = "attempt"
       /\ requests' = Put(requests, key, Count(requests, key) + 1)
       /\ UNCHANGED <<detector, loop_entries, loaded_keys>>
       /\ IF CountryFound(o)
          THEN LET country == CachedCountry(c, o)
                   cache == Put(geocoding_cache, key, country)
               IN /\ geocoding_cache' = cache
                  /\ cache_disk' = IF c = "Comprehensive"
                                   THEN save_cache(cache, cache_disk, write_ok)
                                   ELSE cache_disk
                  /\ call' = [call EXCEPT
                        !.pc = "returned",
                        !.trace = t \o <<Event("cache_write", 0, "")>>
                                    \o (IF c = "Comprehensive"
                                        THEN <<Event("save_cache", 0, "")>> ELSE <<>>),
                        !.result = Returned(call.entry, c, country, lat, lon)]
          ELSE IF BacksOff(o, call.attempt, call.max_retries)
                  /\ HasNextPass(call.attempt, call.max_retries)
          THEN /\ call' = [call EXCEPT
                        !.attempt = @ + 1,
                        !.trace = t \o <<Event("backoff", BackoffMs(call.attempt), "")>>]
               /\ UNCHANGED <<geocoding_cache, cache_disk>>
          ELSE /\ geocoding_cache' = Put(geocoding_cache, key, None)
               /\ call' = [call EXCEPT
                        !.pc = "returned",
                        !.trace = t \o (IF BacksOff(o, call.attempt, call.max_retries)
                                        THEN <<Event("backoff", BackoffMs(call.attempt), "")>>
                                        ELSE <<>>)
                                    \o <<Event("cache_write", 0, "")>>,
                        !.result = Returned(call.entry, c, None, lat, lon)]
               /\ UNCHANGED cache_disk

\* The cache file may be written in this pass: the write succeeds or fails.
AttemptWrites(o) ==
    IF CountryFound(o) /\ detector.cls = "Comprehensive"
    THEN WriteChoices(Put(geocoding_cache, call.key, CachedCountry(detector.cls, o)))
    ELSE {TRUE}

RequestStep ==
    /\ pc \in {"client", "loop", "process_loop"}
    /\ call.pc = "attempt"
    /\ \E o \in Outcomes : \E write_ok \in AttemptWrites(o) : Attempt(o, write_ok)
    /\ UNCHANGED <<env, seismic, pc, calls_made, batch>>

(***************************************************************************)
(* A caller that constructs a detector and applies it to points.           *)
(***************************************************************************)

\* Detector calls of the caller.
MaxCalls == 2

\* Largest max_retries the caller passes to get_country_with_geocoding.
MaxRetriesArg == 3

\* Coordinates in degrees and ten-thousandths of a degree.
At(d, f) == Num(d * Scale + f)

\* Anatolia (no high-confidence rule), two points next to it that share its
\* two-decimal key (the first also its three-decimal key), Tokyo, a latitude
\* out of range, a missing cell, a cell that is no number, the open Pacific
\* on the equator, Tierra del Fuego.
Points ==
    { <<At(39, 0), At(35, 0)>>, <<At(39, 1), At(35, 2)>>, <<At(39, 10), At(35, 20)>>,
      <<At(35, 0), At(139, 0)>>, <<At(200, 0), At(10, 0)>>,
      <<NaN, At(35, 0)>>, <<At(39, 0), Str>>, <<At(39, 0), NaN>>, <<Str, At(35, 0)>>,
      <<At(0, 0), At(-160, 0)>>, <<At(-55, 0), At(-70, 0)>> }

\* The point of the direct calls of get_country_with_geocoding.
DirectPoints == { <<At(39, 0), At(35, 0)>> }

\* Cache files a run may find: none, an unreadable one, one that holds a
\* negative and a positive entry, one that holds nine entries.
Filler(n) == [k \in {<<<<FALSE, 100 * i>>, <<FALSE, 0>>>> : i \in 1..n} |-> "Chile"]

InitialCacheFiles ==
    { NoFile, Corrupt,
      JsonDump([k \in {cache_key("Comprehensive", 390000, 350000)} |-> None]),
      JsonDump(Filler(SaveCacheEvery - 1)) }

\* __init__ of both classes; only ComprehensiveCountryDetector has a cache file
\* (cache_file is TRUE when a path is given).
LoadedCache(cache_file, file) ==
    IF cache_file /\ file.exists /\ file.readable
    THEN JsonLoad(file) ELSE EmptyCache

\* The files the run may find at the cache path it is given.
FilesAt(cache_file) == IF cache_file THEN InitialCacheFiles ELSE {NoFile}

\* The constructor, with file the content of the cache path.
NewDetector(cls, use_geocoding, cache_file, file) ==
    /\ detector' = [cls |-> cls, use_geocoding |-> use_geocoding /\ GEOPY_AVAILABLE,
                    cache_file |-> cache_file]
    /\ cache_disk' = file
    /\ geocoding_cache' = LoadedCache(cache_file, file)
    /\ loaded_keys' = DOMAIN LoadedCache(cache_file, file)

Construct ==
    /\ pc = "init"
    /\ \E cls \in {"Comprehensive", "Advanced"}, g \in BOOLEAN, f \in BOOLEAN :
          /\ cls = "Advanced" => ~f
          /\ \E file \in FilesAt(f) : NewDetector(cls, g, f, file)
    /\ pc' = "client"
    /\ UNCHANGED <<env, seismic, call, requests, loop_entries, calls_made, batch>>

CallCoordinates ==
    /\ pc = "client"
    /\ call.pc \in {"idle", "returned"}
    /\ calls_made < MaxCalls
    /\ \E p \in Points : get_country_from_coordinates(p[1], p[2])
    /\ calls_made' = calls_made + 1
    /\ UNCHANGED <<env, seismic, pc, detector, geocoding_cache, cache_disk, requests, loaded_keys, batch>>

\* A direct call of get_country_with_geocoding(lat, lon, max_retries).
CallGeocoding ==
    /\ pc = "client"
    /\ call.pc \in {"idle", "returned"}
    /\ calls_made < MaxCalls
    /\ detector.use_geocoding
    /\ \E p \in DirectPoints, m \in 1..MaxRetriesArg :
          EnterGeocoding("geocoding", p[1].v, p[2].v, m)
    /\ calls_made' = calls_made + 1
    /\ UNCHANGED <<env, seismic, pc, detector, geocoding_cache, cache_disk, requests, loaded_keys, batch>>

\* KeyboardInterrupt during a request or a sleep of the caller's call: nothing
\* in the detector catches it, the caller's run ends.
CallInterrupted ==
    /\ pc = "client"
    /\ call.pc = "attempt"
    /\ pc' = "aborted"
    /\ UNCHANGED <<env, seismic, det, calls_made, batch>>

\* get_country_from_coordinates_simple(lat, lon)
get_country_from_coordinates_simple(latc, lonc) ==
    IF isna(latc) \/ isna(lonc) THEN "Unknown"
    ELSE IF float_raises(latc) \/ float_raises(lonc) THEN "Unknown"
    ELSE simple_rules(latc.v, lonc.v)

\* A caller that applies the module function of add_country_simple.py to a
\* point; the function uses no detector.
CallSimple ==
    /\ pc = "init"
    /\ \E p \in Points :
          call' = [IdleCall EXCEPT !.pc = "returned", !.entry = "simple",
                     !.lat = p[1], !.lon = p[2],
                     !.result = get_country_from_coordinates_simple(p[1], p[2])]
    /\ pc' = "simple"
    /\ UNCHANGED <<env, seismic, detector, geocoding_cache, cache_disk, requests, loop_entries,
                   loaded_keys, calls_made, batch>>

(***************************************************************************)
(* A caller that applies a detector without geocoding to a point of a grid.*)
(***************************************************************************)

\* The whole degrees the rules of the two detectors and of
\* add_country_simple.py compare a latitude with, and the ends of the range.
LatBreaks ==
    {-90, -60, -56, -55, -50, -47, -44, -40, -34, -30, -21, -20, -19, -17, -15, -12,
     -11, -10, -8, -5, -1, 0, 2, 5, 6, 7, 10, 12, 13, 14, 15, 18, 20, 21, 23, 24, 25,
     30, 32, 33, 34, 35, 36, 38, 40, 41, 42, 45, 46, 47, 48, 49, 50, 54, 55, 60, 70,
     72, 75, 80, 82, 84, 85, 90}

\* The whole degrees the rules compare a longitude with.
LonBreaks ==
    {-180, -170, -169, -168, -162, -154, -141, -125, -120, -118, -100, -95, -93, -92,
     -90, -86, -85, -82, -80, -77, -76, -75, -74, -70, -68, -66, -60, -59, -53, -52,
     -50, -34, -30, -25, -20, -15, -10, -6, 6, 10, 15, 19, 20, 25, 26, 27, 30, 37, 40,
     42, 44, 45, 46, 50, 55, 60, 64, 65, 68, 70, 73, 80, 85, 90, 95, 98, 100, 110,
     112, 116, 120, 122, 127, 129, 130, 135, 140, 141, 145, 146, 154, 155, 160, 166,
     179, 180}

\* Each of these values, and the values 0.001 degrees below and above it: one
\* point on every edge of every rule and one in every cell between the edges.
Nearby == {-10, 0, 10}
GridLat == {Deg(b) + e : b \in LatBreaks, e \in Nearby}
GridLon == {Deg(b) + e : b \in LonBreaks, e \in Nearby}

\* One call of get_country_from_coordinates of a detector without geocoding
\* and without a cache file.
ClassifyGridPoint ==
    /\ pc = "client"
    /\ call.pc = "idle"
    /\ ~detector.use_geocoding /\ ~detector.cache_file
    /\ \E lat \in GridLat, lon \in GridLon : get_country_from_coordinates(Num(lat), Num(lon))
    /\ pc' = "classified"
    /\ UNCHANGED <<env, seismic, detector, geocoding_cache, cache_disk, requests, loaded_keys,
                   calls_made, batch>>

\* One call of get_country_from_coordinates_simple for a point of the grid.
ClassifySimpleGridPoint ==
    /\ pc = "init"
    /\ \E lat \in GridLat, lon \in GridLon :
          call' = [IdleCall EXCEPT !.pc = "returned", !.entry = "simple",
                     !.lat = Num(lat), !.lon = Num(lon),
                     !.result = get_country_from_coordinates_simple(Num(lat), Num(lon))]
    /\ pc' = "classified_simple"
    /\ UNCHANGED <<env, seismic, detector, geocoding_cache, cache_disk, requests, loop_entries,
                   loaded_keys, calls_made, batch>>

(***************************************************************************)
(* analyze_and_update_database.                                            *)
(***************************************************************************)

\* Rows of the short input tables.
MaxRows == 2

Row(p, country) == [Latitude |-> p[1], Longitude |-> p[2], Country |-> country]

\* Rows of a table with a Country column: a missing label, the two unknown
\* placeholders, a label the rules give too, a label as an earlier geocoding
\* run wrote it.  (45, -30) is in no rule of the detailed stage.
CountryRows ==
    { Row(<<At(39, 0), At(35, 0)>>, None),
      Row(<<At(39, 1), At(35, 2)>>, "Unknown"),
      Row(<<At(45, 0), At(-30, 0)>>, "Unknown Region"),
      Row(<<At(35, 0), At(139, 0)>>, "Japan"),
      Row(<<At(39, 0), At(35, 0)>>, "Turkiye"),
      Row(<<NaN, At(35, 0)>>, None) }

\* Rows of a table without a Country column.
PlainRows ==
    { Row(<<At(39, 0), At(35, 0)>>, None),
      Row(<<At(45, 0), At(-30, 0)>>, None),
      Row(<<At(35, 0), At(139, 0)>>, None) }

SeqsUpTo(S, n) == UNION {[1..k -> S] : k \in 0..n}

\* A table long enough for the periodic write of the output.
LongTable == [i \in 1..(SaveEvery + 1) |-> Row(<<At(39, 0), At(35, 0)>>, None)]

\* Tables of at most MaxRows rows, with and without a Country column.
ShortTables ==
    {[has_country |-> TRUE, rows |-> t] : t \in SeqsUpTo(CountryRows, MaxRows)}
    \cup {[has_country |-> FALSE, rows |-> t] : t \in SeqsUpTo(PlainRows, MaxRows)}

Tables == ShortTables \cup {[has_country |-> FALSE, rows |-> LongTable]}

\* sample_size: None, or a number of rows.
SampleSizes == {0, 1}

\* "if sample_size and sample_size < len(df): df = df.head(sample_size)"
Sampled(rows, sample_size) ==
    IF sample_size # 0 /\ sample_size < Len(rows) THEN SubSeq(rows, 1, sample_size) ELSE rows

\* Variant: the mask selects every row.
missing_mask_All(row) == TRUE

\* df['Country'].isna() | (df['Country'] == 'Unknown') | (df['Country'] == 'Unknown Region')
missing_mask(row) ==
    row.Country = None \/ row.Country = "Unknown" \/ row.Country = "Unknown Region"

\* The indices of rows that satisfy the mask, in row order.
RECURSIVE Selected(_, _)
Selected(rows, i) ==
    IF i > Len(rows) THEN <<>>
    ELSE (IF missing_mask(rows[i]) THEN <<i>> ELSE <<>>) \o Selected(rows, i + 1)

AllRows(rows) == [i \in 1..Len(rows) |-> i]

\* Variant: the Country column is reset also when the labels are to be kept.
InitialTable_Reset(rows, keep) ==
    [i \in 1..Len(rows) |-> [rows[i] EXCEPT !.Country = "Unknown"]]

\* The table the row loop starts from: as read when the Country column exists
\* and no update is forced, else with "df['Country'] = 'Unknown'".
InitialTable(rows, keep) ==
    IF keep THEN rows ELSE [i \in 1..Len(rows) |-> [rows[i] EXCEPT !.Country = "Unknown"]]

\* Strings pd.read_csv reads as a missing value.
NaStrings == {"", "NA", "N/A", "NULL", "NaN", "None", "nan", "null", "n/a", "<NA>", "#N/A"}

\* pd.read_csv of a file df.to_csv wrote: a missing Country was written as an
\* empty field, and a field that holds one of the NaStrings is read as missing.
read_csv(file) ==
    [i \in 1..Len(file.rows) |->
        [file.rows[i] EXCEPT !.Country = IF @ \in NaStrings \cup {None} THEN None ELSE @]]

\* pd.read_csv raises: the function logs the error and returns None.
AnalyzeReadFails ==
    /\ pc = "init"
    /\ pc' = "done"
    /\ UNCHANGED <<env, seismic, det, calls_made, batch>>

\* From read_csv to the start of the row loop.
AnalyzeSetup(table, use_geocoding, sample_size, force_update, file) ==
    LET rows == Sampled(table.rows, sample_size)
        keep == table.has_country /\ ~force_update
        selected == IF keep THEN Selected(rows, 1) ELSE AllRows(rows)
    IN /\ pc = "init"
       /\ NewDetector("Comprehensive", use_geocoding, use_geocoding, file)
       /\ args' = [has_country |-> table.has_country, use_geocoding |-> use_geocoding,
                   force_update |-> force_update, loaded |-> TRUE, interrupted |-> FALSE]
       /\ input' = rows
       /\ df' = InitialTable(rows, keep)
       /\ rows_to_process' = selected
       /\ pos' = 1
       /\ pc' = IF Len(selected) = 0 THEN "done"
                ELSE IF ~GEOPY_AVAILABLE THEN "crashed"
                ELSE "loop"
       /\ UNCHANGED <<env, seismic, call, requests, loop_entries, calls_made,
                      processed_count, labels, io_log, output_disk, previous_output>>

AnalyzeStart ==
    /\ pc = "init"
    /\ \E table \in Tables, g \in BOOLEAN, n \in SampleSizes, force \in BOOLEAN :
          \E file \in FilesAt(g) : AnalyzeSetup(table, g, n, force, file)

\* A second run without geocoding, with the output file of a completed first
\* run without geocoding as its input file.
AnalyzeAgain ==
    /\ pc = "done"
    /\ args.loaded /\ ~args.use_geocoding /\ ~args.interrupted
    /\ output_disk.exists
    /\ ~previous_output.exists
    /\ \E force_update \in BOOLEAN :
          LET rows == read_csv(output_disk)
              keep == ~force_update
              selected == IF keep THEN Selected(rows, 1) ELSE AllRows(rows)
          IN /\ NewDetector("Comprehensive", FALSE, FALSE, NoFile)
             /\ args' = [has_country |-> TRUE, use_geocoding |-> FALSE,
                         force_update |-> force_update, loaded |-> TRUE,
                         interrupted |-> FALSE]
             /\ input' = rows
             /\ df' = InitialTable(rows, keep)
             /\ rows_to_process' = selected
             /\ pos' = 1
             /\ pc' = IF Len(selected) = 0 THEN "done"
                      ELSE IF ~GEOPY_AVAILABLE THEN "crashed"
                      ELSE "loop"
    /\ previous_output' = output_disk
    /\ processed_count' = 0
    /\ labels' = <<>>
    /\ io_log' = <<>>
    /\ call' = IdleCall
    /\ UNCHANGED <<env, seismic, requests, loop_entries, calls_made, output_disk>>

\* "lat = df.loc[idx, 'Latitude'] ... detector.get_country_from_coordinates(lat, lon)"
RowStart ==
    /\ pc = "loop"
    /\ call.pc = "idle"
    /\ pos <= Len(rows_to_process)
    /\ LET idx == rows_to_process[pos]
       IN get_country_from_coordinates(df[idx].Latitude, df[idx].Longitude)
    /\ UNCHANGED <<env, seismic, pc, detector, geocoding_cache, cache_disk, requests, loaded_keys,
                   calls_made, batch>>

\* Variant: the output is written at the end only.
PeriodicSaveDue_Never(count) == FALSE

\* "if use_geocoding and processed_count % 100 == 0"
PeriodicSaveDue(count) == args.use_geocoding /\ count % SaveEvery = 0

\* The rest of the loop body once the detector has returned; after the last
\* row the loop ends.  A periodic df.to_csv that raises ends the function.
RowDone(write_ok) ==
    LET idx == rows_to_process[pos]
        table == [df EXCEPT ![idx].Country = call.result]
        count == processed_count + 1
        due == PeriodicSaveDue(count)
    IN /\ pc = "loop"
       /\ call.pc = "returned"
       /\ df' = table
       /\ labels' = Append(labels, call.result)
       /\ processed_count' = count
       /\ call' = IdleCall
       /\ IF due /\ ~write_ok
          THEN /\ pc' = "crashed"
               /\ io_log' = Append(io_log, "periodic_failed")
               /\ UNCHANGED <<output_disk, pos>>
          ELSE /\ pc' = IF pos = Len(rows_to_process) THEN "final_save" ELSE "loop"
               /\ pos' = pos + 1
               /\ output_disk' = IF due THEN to_csv(table) ELSE output_disk
               /\ io_log' = IF due THEN Append(io_log, "periodic") ELSE io_log
       /\ UNCHANGED <<env, seismic, detector, geocoding_cache, cache_disk, requests, loop_entries,
                      loaded_keys, calls_made, args, input, rows_to_process, previous_output>>

RowDoneWrites == IF PeriodicSaveDue(processed_count + 1) THEN BOOLEAN ELSE {TRUE}

RowEnd ==
    /\ pc = "loop"
    /\ call.pc = "returned"
    /\ \E write_ok \in RowDoneWrites : RowDone(write_ok)

\* Variant: the interrupt is not caught and ends the function.
KeyboardInterrupt_Uncaught ==
    /\ pc = "loop"
    /\ pc' = "done"
    /\ args' = [args EXCEPT !.interrupted = TRUE]
    /\ call' = IdleCall
    /\ UNCHANGED <<env, seismic, detector, geocoding_cache, cache_disk, requests, loop_entries,
                   loaded_keys, calls_made, input, df, rows_to_process, pos,
                   processed_count, labels, io_log, output_disk, previous_output>>

\* "except KeyboardInterrupt": an interrupt anywhere in the loop, also inside
\* the detector, ends the loop and goes on to the final save.
KeyboardInterrupt ==
    /\ pc = "loop"
    /\ pc' = "final_save"
    /\ args' = [args EXCEPT !.interrupted = TRUE]
    /\ call' = IdleCall
    /\ UNCHANGED <<env, seismic, detector, geocoding_cache, cache_disk, requests, loop_entries,
                   loaded_keys, calls_made, input, df, rows_to_process, pos, processed_count, labels,
                   io_log, output_disk, previous_output>>

\* "df.to_csv(output_file)" and then "if use_geocoding: detector.save_cache()".
\* A df.to_csv that raises ends the function.
FinalSave(write_ok, cache_write_ok) ==
    /\ pc = "final_save"
    /\ IF write_ok
       THEN /\ output_disk' = to_csv(df)
            /\ io_log' = Append(io_log, "final")
            /\ cache_disk' = IF args.use_geocoding
                             THEN save_cache(geocoding_cache, cache_disk, cache_write_ok)
                             ELSE cache_disk
            /\ pc' = "done"
       ELSE /\ io_log' = Append(io_log, "final_failed")
            /\ pc' = "crashed"
            /\ UNCHANGED <<output_disk, cache_disk>>
    /\ UNCHANGED <<env, seismic, detector, geocoding_cache, call, requests, loop_entries, loaded_keys,
                   calls_made, args, input, df, rows_to_process, pos, processed_count, labels,
                   previous_output>>

FinalCacheWrites == IF args.use_geocoding THEN WriteChoices(geocoding_cache) ELSE {TRUE}

FinalSaveStep ==
    /\ pc = "final_save"
    /\ \/ \E cache_write_ok \in FinalCacheWrites : FinalSave(TRUE, cache_write_ok)
       \/ FinalSave(FALSE, TRUE)

(***************************************************************************)
(* process_earthquake_database (add_country_advanced.py).                  *)
(***************************************************************************)

\* "processed_count % 1000 == 0 and use_geocoding": the output is written
\* every 1000 rows.
ProcessSaveEvery == 1000

\* df['Country'].isna() | (df['Country'] == 'Unknown')
process_mask(row) == row.Country = None \/ row.Country = "Unknown"

RECURSIVE ProcessSelected(_, _)
ProcessSelected(rows, i) ==
    IF i > Len(rows) THEN <<>>
    ELSE (IF process_mask(rows[i]) THEN <<i>> ELSE <<>>) \o ProcessSelected(rows, i + 1)

\* pd.read_csv raises: the function logs the error and returns None.
ProcessReadFails ==
    /\ pc = "init"
    /\ pc' = "process_done"
    /\ UNCHANGED <<env, seismic, det, calls_made, batch>>

\* From read_csv to the start of the row loop.  The detector has no cache
\* file of its own; the function writes the cache to a file at its end.
ProcessSetup(table, use_geocoding, sample_size) ==
    LET rows == Sampled(table.rows, sample_size)
        selected == IF table.has_country THEN ProcessSelected(rows, 1) ELSE AllRows(rows)
    IN /\ NewDetector("Advanced", use_geocoding, FALSE, NoFile)
       /\ args' = [has_country |-> table.has_country, use_geocoding |-> use_geocoding,
                   force_update |-> FALSE, loaded |-> TRUE, interrupted |-> FALSE]
       /\ input' = rows
       /\ df' = IF table.has_country THEN rows
                ELSE [i \in 1..Len(rows) |-> [rows[i] EXCEPT !.Country = "Unknown"]]
       /\ rows_to_process' = selected
       /\ pos' = 1
       /\ pc' = IF Len(selected) = 0 THEN "process_final_save" ELSE "process_loop"
       /\ UNCHANGED <<env, seismic, call, requests, loop_entries, calls_made,
                      processed_count, labels, io_log, output_disk, previous_output>>

ProcessStart ==
    /\ pc = "init"
    /\ \E table \in ShortTables, g \in BOOLEAN, n \in SampleSizes : ProcessSetup(table, g, n)

ProcessRowStart ==
    /\ pc = "process_loop"
    /\ call.pc = "idle"
    /\ pos <= Len(rows_to_process)
    /\ LET idx == rows_to_process[pos]
       IN get_country_from_coordinates(df[idx].Latitude, df[idx].Longitude)
    /\ UNCHANGED <<env, seismic, pc, detector, geocoding_cache, cache_disk, requests, loaded_keys,
                   calls_made, batch>>

ProcessPeriodicSaveDue(count) == count % ProcessSaveEvery = 0 /\ args.use_geocoding

\* The rest of the loop body once the detector has returned.  A periodic
\* df.to_csv that raises ends the function.
ProcessRowDone(write_ok) ==
    LET idx == rows_to_process[pos]
        table == [df EXCEPT ![idx].Country = call.result]
        count == processed_count + 1
        due == ProcessPeriodicSaveDue(count)
    IN /\ df' = table
       /\ labels' = Append(labels, call.result)
       /\ processed_count' = count
       /\ call' = IdleCall
       /\ IF due /\ ~write_ok
          THEN /\ pc' = "process_crashed"
               /\ io_log' = Append(io_log, "periodic_failed")
               /\ UNCHANGED <<output_disk, pos>>
          ELSE /\ pc' = IF pos = Len(rows_to_process) THEN "process_final_save"
                        ELSE "process_loop"
               /\ pos' = pos + 1
               /\ output_disk' = IF due THEN to_csv(table) ELSE output_disk
               /\ io_log' = IF due THEN Append(io_log, "periodic") ELSE io_log
       /\ UNCHANGED <<env, seismic, detector, geocoding_cache, cache_disk, requests, loop_entries,
                      loaded_keys, calls_made, args, input, rows_to_process, previous_output>>

ProcessRowEnd ==
    /\ pc = "process_loop"
    /\ call.pc = "returned"
    /\ \E write_ok \in (IF ProcessPeriodicSaveDue(processed_count + 1) THEN BOOLEAN ELSE {TRUE}) :
          ProcessRowDone(write_ok)

\* A KeyboardInterrupt anywhere in the row loop, also inside the detector:
\* the function has no handler for it, the exception leaves the function.
ProcessInterrupted ==
    /\ pc = "process_loop"
    /\ pc' = "process_aborted"
    /\ call' = IdleCall
    /\ UNCHANGED <<env, seismic, detector, geocoding_cache, cache_disk, requests, loop_entries,
                   loaded_keys, calls_made, batch>>

\* "if use_geocoding and detector.geocoding_cache": the cache file is written.
ProcessCacheDue == args.use_geocoding /\ DOMAIN geocoding_cache # {}

\* "df.to_csv(output_file)", the summary, and the write of the cache file.  A
\* write that raises ends the function; open(..., 'w') has truncated the cache
\* file by then.
ProcessFinalSave(write_ok, cache_write_ok) ==
    /\ IF write_ok
       THEN /\ output_disk' = to_csv(df)
            /\ io_log' = Append(io_log, "final")
            /\ cache_disk' = IF ~ProcessCacheDue THEN cache_disk
                             ELSE IF cache_write_ok THEN JsonDump(geocoding_cache)
                             ELSE Corrupt
            /\ pc' = IF ProcessCacheDue /\ ~cache_write_ok THEN "process_crashed"
                     ELSE "process_done"
       ELSE /\ io_log' = Append(io_log, "final_failed")
            /\ pc' = "process_crashed"
            /\ UNCHANGED <<output_disk, cache_disk>>
    /\ UNCHANGED <<env, seismic, detector, geocoding_cache, call, requests, loop_entries, loaded_keys,
                   calls_made, args, input, df, rows_to_process, pos, processed_count, labels,
                   previous_output>>

ProcessFinalSaveStep ==
    /\ pc = "process_final_save"
    /\ \/ \E cache_write_ok \in (IF ProcessCacheDue THEN BOOLEAN ELSE {TRUE}) :
             ProcessFinalSave(TRUE, cache_write_ok)
       \/ ProcessFinalSave(FALSE, TRUE)

(***************************************************************************)
(* process_earthquake_data_simple (add_country_simple.py).                 *)
(***************************************************************************)

\* pd.read_csv raises: the function logs the error and returns None.
SimpleReadFails ==
    /\ pc = "init"
    /\ pc' = "simple_done"
    /\ UNCHANGED <<env, seismic, det, calls_made, batch>>

\* From read_csv to the start of the row loop; the mask is
\* df['Country'].isna() | (df['Country'] == 'Unknown').
SimpleStart ==
    /\ pc = "init"
    /\ \E table \in ShortTables :
          /\ args' = [has_country |-> table.has_country, use_geocoding |-> FALSE,
                      force_update |-> FALSE, loaded |-> TRUE, interrupted |-> FALSE]
          /\ input' = table.rows
          /\ df' = IF table.has_country THEN table.rows
                   ELSE [i \in 1..Len(table.rows) |->
                            [table.rows[i] EXCEPT !.Country = "Unknown"]]
          /\ rows_to_process' = IF table.has_country THEN ProcessSelected(table.rows, 1)
                                ELSE AllRows(table.rows)
    /\ pos' = 1
    /\ pc' = "simple_loop"
    /\ UNCHANGED <<env, seismic, det, calls_made, processed_count, labels, io_log, output_disk,
                   previous_output>>

\* One pass of the row loop:
\* "df.loc[idx, 'Country'] = get_country_from_coordinates_simple(lat, lon)".
SimpleRow ==
    /\ pc = "simple_loop"
    /\ pos <= Len(rows_to_process)
    /\ LET idx == rows_to_process[pos]
           country == get_country_from_coordinates_simple(df[idx].Latitude, df[idx].Longitude)
       IN /\ df' = [df EXCEPT ![idx].Country = country]
          /\ labels' = Append(labels, country)
    /\ pos' = pos + 1
    /\ UNCHANGED <<env, seismic, pc, det, calls_made, args, input, rows_to_process, processed_count,
                   io_log, output_disk, previous_output>>

\* "df.to_csv(output_file, index=False)" after the loop; a write that raises
\* ends the function.
SimpleFinalSave ==
    /\ pc = "simple_loop"
    /\ pos > Len(rows_to_process)
    /\ \E write_ok \in BOOLEAN :
          IF write_ok
          THEN /\ output_disk' = to_csv(df)
               /\ io_log' = Append(io_log, "final")
               /\ pc' = "simple_done"
          ELSE /\ io_log' = Append(io_log, "final_failed")
               /\ pc' = "simple_crashed"
               /\ UNCHANGED output_disk
    /\ UNCHANGED <<env, seismic, det, calls_made, args, input, df, rows_to_process, pos,
                   processed_count, labels, previous_output>>

(***************************************************************************)
(* SeismicWaveFetcher (seismic_wave_fetcher.py).                           *)
(***************************************************************************)

\* "self.time_window_days = 7"
time_window_days == 7

\* The default of max_stations in get_nearby_stations.
max_stations == 10

\* "stations[:5]": the station loop takes the first five stations.
StationLimit == 5

\* Times of the events, in days.
EventTimes == {30, 400}

\* self.available_networks, in the order the constructor creates the clients.
available_networks == <<"IRIS", "USGS", "ORFEUS", "GFZ">>

StationInfo(code, distance_km, client) ==
    [station |-> code, distance_km |-> distance_km, client |-> client]

\* What client.get_stations of each network returns around the event: the
\* stations in inventory order, with their distance from the event.
Inventory(network_name) ==
    IF network_name = "IRIS"
    THEN <<StationInfo("ANMO", 30, "IRIS"), StationInfo("COLA", 10, "IRIS")>>
    ELSE IF network_name = "USGS"
    THEN <<StationInfo("GOGA", 50, "USGS"), StationInfo("ISCO", 20, "USGS"),
           StationInfo("NEW", 40, "USGS")>>
    ELSE IF network_name = "ORFEUS"
    THEN <<StationInfo("WLF", 10, "ORFEUS")>>
    ELSE <<StationInfo("RUE", 60, "GFZ")>>

\* The loop over self.clients: the stations of the clients that answer, in
\* client order; a client that raises adds nothing.
RECURSIVE Collect(_, _)
Collect(answering, i) ==
    IF i > Len(available_networks) THEN <<>>
    ELSE (IF available_networks[i] \in answering THEN Inventory(available_networks[i])
          ELSE <<>>) \o Collect(answering, i + 1)

\* s put into a list sorted by distance, after the elements that are not
\* farther than s (list.sort is stable).
InsertByDistance(sorted, s) ==
    LET k == Cardinality({i \in DOMAIN sorted : sorted[i].distance_km <= s.distance_km})
    IN SubSeq(sorted, 1, k) \o <<s>> \o SubSeq(sorted, k + 1, Len(sorted))

\* Variant: the list is left in the order the clients gave it.
SortByDistance_Unsorted(list) == list

\* "stations.sort(key=lambda x: x['distance_km'])"
RECURSIVE SortByDistance(_)
SortByDistance(list) ==
    IF list = <<>> THEN <<>>
    ELSE InsertByDistance(SortByDistance(SubSeq(list, 1, Len(list) - 1)), list[Len(list)])

\* list[:n]
Take(list, n) == SubSeq(list, 1, IF n < Len(list) THEN n ELSE Len(list))

get_nearby_stations(answering) ==
    Take(SortByDistance(Collect(answering, 1)), max_stations)

NoDataFetched == [before |-> <<>>, after |-> <<>>]

\* The path of a waveform file: f"{window}_{network}_{station}.json".
WaveformFile(window, s) == <<window, s.station>>

\* What fetch_seismic_data returns: the processed waveform of the first
\* channel with data, or None (no client, no data, or an error it caught).
FetchResults == {"waveform", "none"}

\* The event record lacks a field, or the event directory cannot be created:
\* the outer handler prints the error and returns None.
FetchSetupFails ==
    /\ fetch_pc = "idle"
    /\ fetch_pc' = "returned_none"
    /\ UNCHANGED <<env, pc, det, calls_made, batch, earthquake_time, clients, stations,
                   station_i, fetch_log, written, data_fetched, metadata_log>>

\* From the parsing of the event to the start of the station loop.
FetchStart ==
    /\ fetch_pc = "idle"
    /\ \E t \in EventTimes, answering \in SUBSET {available_networks[i] : i \in 1..4} :
          /\ earthquake_time' = t
          /\ clients' = answering
          /\ stations' = get_nearby_stations(answering)
          /\ fetch_pc' = IF get_nearby_stations(answering) = <<>> THEN "returned_none"
                         ELSE "before"
    /\ station_i' = 1
    /\ UNCHANGED <<env, pc, det, calls_made, batch, fetch_log, written, data_fetched,
                   metadata_log>>

\* The end of a pass of the station loop: the next station, or the end of
\* the loop.
NextStation ==
    /\ station_i' = station_i + 1
    /\ fetch_pc' = IF station_i = Len(Take(stations, StationLimit)) THEN "metadata"
                   ELSE "before"

\* fetch_seismic_data(station, start, end, event_id) with result r, and the
\* write of the file when there is data.  A write that raises lands in the
\* handler of the pass, which goes on to the next station.
FetchWindow(window, start, end, r, write_ok) ==
    LET s == stations[station_i]
        file == WaveformFile(window, s)
    IN /\ fetch_log' = Append(fetch_log,
                          [station |-> s.station, distance_km |-> s.distance_km,
                           window |-> window, start |-> start, end |-> end])
       /\ IF r = "waveform" /\ write_ok
          THEN /\ written' = Append(written, file)
               /\ data_fetched' = [data_fetched EXCEPT ![window] = Append(@, file)]
          ELSE UNCHANGED <<written, data_fetched>>
       /\ IF r = "waveform" /\ ~write_ok THEN NextStation
          ELSE IF window = "before"
          THEN fetch_pc' = "after" /\ UNCHANGED station_i
          ELSE NextStation

WindowWrites(r) == IF r = "waveform" THEN BOOLEAN ELSE {TRUE}

\* "before_data = self.fetch_seismic_data(station, before_start, before_end, ...)"
FetchBefore ==
    /\ fetch_pc = "before"
    /\ \E r \in FetchResults : \E write_ok \in WindowWrites(r) :
          FetchWindow("before", earthquake_time - time_window_days, earthquake_time,
                      r, write_ok)
    /\ UNCHANGED <<env, pc, det, calls_made, batch, earthquake_time, clients, stations,
                   metadata_log>>

\* "after_data = self.fetch_seismic_data(station, after_start, after_end, ...)"
FetchAfter ==
    /\ fetch_pc = "after"
    /\ \E r \in FetchResults : \E write_ok \in WindowWrites(r) :
          FetchWindow("after", earthquake_time, earthquake_time + time_window_days,
                      r, write_ok)
    /\ UNCHANGED <<env, pc, det, calls_made, batch, earthquake_time, clients, stations,
                   metadata_log>>

\* "json.dump(earthquake_metadata, f, ...)" into metadata.json after the loop;
\* a write that raises lands in the outer handler, which returns None.
FetchWriteMetadata ==
    /\ fetch_pc = "metadata"
    /\ \E write_ok \in BOOLEAN :
          /\ metadata_log' = Append(metadata_log,
                                [data_fetched |-> data_fetched, complete |-> write_ok])
          /\ fetch_pc' = IF write_ok THEN "returned" ELSE "returned_none"
    /\ UNCHANGED <<env, pc, det, calls_made, batch, earthquake_time, clients, stations,
                   station_i, fetch_log, written, data_fetched>>

NoDetector == [cls |-> "Comprehensive", use_geocoding |-> FALSE, cache_file |-> FALSE]
NoArgs == [has_country |-> FALSE, use_geocoding |-> FALSE, force_update |-> FALSE,
           loaded |-> FALSE, interrupted |-> FALSE]

Init ==
    /\ GEOPY_AVAILABLE \in BOOLEAN
    /\ PYCOUNTRY_AVAILABLE \in BOOLEAN
    /\ pc = "init"
    /\ detector = NoDetector
    /\ geocoding_cache = EmptyCache
    /\ cache_disk = NoFile
    /\ output_disk = NoOutput
    /\ call = IdleCall
    /\ requests = EmptyCache
    /\ loop_entries = EmptyCache
    /\ loaded_keys = {}
    /\ calls_made = 0
    /\ args = NoArgs
    /\ input = <<>>
    /\ df = <<>>
    /\ rows_to_process = <<>>
    /\ pos = 0
    /\ processed_count = 0
    /\ labels = <<>>
    /\ io_log = <<>>
    /\ previous_output = NoOutput
    /\ fetch_pc = "idle"
    /\ earthquake_time = 0
    /\ clients = {}
    /\ stations = <<>>
    /\ station_i = 0
    /\ fetch_log = <<>>
    /\ written = <<>>
    /\ data_fetched = NoDataFetched
    /\ metadata_log = <<>>

Next ==
    \/ Construct
    \/ CallCoordinates
    \/ CallGeocoding
    \/ CallInterrupted
    \/ RequestStep
    \/ AnalyzeReadFails
    \/ AnalyzeStart
    \/ RowStart
    \/ RowEnd
    \/ KeyboardInterrupt
    \/ FinalSaveStep
    \/ AnalyzeAgain
    \/ ProcessReadFails
    \/ ProcessStart
    \/ ProcessRowStart
    \/ ProcessRowEnd
    \/ ProcessInterrupted
    \/ ProcessFinalSaveStep
    \/ CallSimple
    \/ SimpleReadFails
    \/ SimpleStart
    \/ SimpleRow
    \/ SimpleFinalSave

Spec == Init /\ [][Next]_vars

\* One call for a point of the grid: of a detector after its constructor, or
\* of the function of add_country_simple.py.
NextGrid ==
    \/ Construct
    \/ ClassifyGridPoint
    \/ ClassifySimpleGridPoint

SpecGrid == Init /\ [][NextGrid]_vars

\* One run of fetch_earthquake_seismic_data.
NextFetch ==
    \/ FetchSetupFails
    \/ FetchStart
    \/ FetchBefore
    \/ FetchAfter
    \/ FetchWriteMetadata

SpecFetch == Init /\ [][NextFetch]_vars

(***************************************************************************)
(* A long geocoding session, taken up after its ninth lookup.              *)
(***************************************************************************)

\* The cache after the lookups of (1, 0), (2, 0), ... (9, 0), points with no
\* high-confidence label, each answered with a country at the first request.
NineEntries == [k \in DOMAIN Filler(SaveCacheEvery - 1) |-> "Turkey"]

\* A ComprehensiveCountryDetector with geocoding and a cache path at which no
\* file existed, after these nine calls of get_country_from_coordinates:
\* save_cache ran after each and wrote nothing (1 to 9 entries).  calls_made
\* counts the calls from here on.
InitAfterNine ==
    /\ GEOPY_AVAILABLE = TRUE
    /\ PYCOUNTRY_AVAILABLE \in BOOLEAN
    /\ pc = "client"
    /\ detector = [cls |-> "Comprehensive", use_geocoding |-> TRUE, cache_file |-> TRUE]
    /\ geocoding_cache = NineEntries
    /\ cache_disk = NoFile
    /\ output_disk = NoOutput
    /\ call = IdleCall
    /\ requests = [k \in DOMAIN NineEntries |-> 1]
    /\ loop_entries = [k \in DOMAIN NineEntries |->
                          <<[entry |-> "coordinates",
                             max_retries |-> DefaultMaxRetries("Comprehensive")]>>]
    /\ loaded_keys = {}
    /\ calls_made = 0
    /\ args = NoArgs
    /\ input = <<>>
    /\ df = <<>>
    /\ rows_to_process = <<>>
    /\ pos = 0
    /\ processed_count = 0
    /\ labels = <<>>
    /\ io_log = <<>>
    /\ previous_output = NoOutput
    /\ fetch_pc = "idle"
    /\ earthquake_time = 0
    /\ clients = {}
    /\ stations = <<>>
    /\ station_i = 0
    /\ fetch_log = <<>>
    /\ written = <<>>
    /\ data_fetched = NoDataFetched
    /\ metadata_log = <<>>

NextAfterNine ==
    \/ CallCoordinates
    \/ CallGeocoding
    \/ CallInterrupted
    \/ RequestStep

SpecAfterNine == InitAfterNine /\ [][NextAfterNine]_vars

(***************************************************************************)
(* Properties.                                                             *)
(***************************************************************************)

Retryable == {"timeout_or_service_error"}

IsRequest(e) == e.kind = "request"
IsBackoff(e) == e.kind = "backoff"

\* The requests and the backoff sleeps of the call in progress, in order.
RequestsOf(t) == SelectSeq(t, IsRequest)
BackoffsOf(t) == SelectSeq(t, IsBackoff)

Last(q) == q[Len(q)]

CacheLookupOnly == <<Event("cache_lookup", 0, "")>>

\* A step that starts a detector call which reaches get_country_with_geocoding.
NewGeocodingCall ==
    /\ call.pc \in {"idle", "returned"}
    /\ call'.pc \in {"attempt", "returned"}
    /\ call'.key # NoKey

C1_Once == \A k \in DOMAIN loop_entries : Len(loop_entries[k]) <= 1

C1_Loaded == \A k \in loaded_keys : Entries(k) = <<>> /\ Count(requests, k) = 0

C1_LaterCall ==
    (NewGeocodingCall /\ (call'.key \in DOMAIN geocoding_cache \/ Entries(call'.key) # <<>>))
    => /\ call'.pc = "returned"
       /\ call'.trace = CacheLookupOnly
       /\ UNCHANGED <<requests, loop_entries, geocoding_cache>>

\* C1: per rounded cache key the request loop of get_country_with_geocoding is
\* entered at most once in a run; a key read from the cache file never enters
\* it; every later call with a key that is cached (with a country or with
\* None) or was looked up before returns from the cache lookup alone, with no
\* request and no change of the cache.
C1_LoopEnteredOncePerKey == [](C1_Once /\ C1_Loaded) /\ [][C1_LaterCall]_vars

\* A second call with the key of a failed lookup has returned from the cache.
C1_Witness ==
    /\ call.pc = "returned"
    /\ call.trace = CacheLookupOnly
    /\ Len(Entries(call.key)) = 1
    /\ Count(requests, call.key) >= 1
    /\ geocoding_cache[call.key] = None

\* The last write of the output the run attempted.
LastWrite == IF io_log = <<>> THEN "none" ELSE Last(io_log)

\* The final save of the batch job has written the output.
FinalSaveDone == pc = "done" /\ LastWrite = "final"

\* C2: when a geocoding run of analyze_and_update_database has ended after
\* its final save, with no write of the cache file having failed, the cache
\* file holds every entry of the in-memory cache.
C2_CacheFileHoldsCache ==
    (FinalSaveDone /\ args.use_geocoding /\ cache_disk # Corrupt)
    => /\ cache_disk.readable
       /\ JsonLoad(cache_disk) = geocoding_cache

\* C3: a run of analyze_and_update_database that has read its input and has
\* returned has written the whole table to the output path.
C3_OutputWrittenOnReturn ==
    (pc = "done" /\ args.loaded) => output_disk = to_csv(df)

\* The call in progress was given two numbers.
NumericCall == call.lat.kind = "num" /\ call.lon.kind = "num"

InRange(lat, lon) == In(lat, -90, 90) /\ In(lon, -180, 180)

\* C4: get_country_from_coordinates returns "Unknown" for a numeric coordinate
\* whose latitude is outside [-90, 90] or whose longitude is outside
\* [-180, 180].
C4_OutOfRangeIsUnknown ==
    (/\ call.pc = "returned"
     /\ call.entry = "coordinates"
     /\ NumericCall
     /\ ~InRange(call.lat.v, call.lon.v))
    => call.result = "Unknown"

\* C5: when get_high_confidence_country gives a label other than "Uncertain",
\* ComprehensiveCountryDetector.get_country_from_coordinates returns that
\* label without a cache lookup, a cache write or a request.
C5_HighConfidenceSkipsGeocoding ==
    (/\ call.pc \in {"attempt", "returned"}
     /\ detector.cls = "Comprehensive"
     /\ call.entry = "coordinates"
     /\ NumericCall
     /\ get_high_confidence_country(call.lat.v, call.lon.v) # "Uncertain")
    => /\ call.pc = "returned"
       /\ call.result = get_high_confidence_country(call.lat.v, call.lon.v)
       /\ call.trace = <<>>
       /\ call.key = NoKey

\* A high-confidence point was resolved by a detector with geocoding enabled.
C5_Witness ==
    /\ call.pc = "returned"
    /\ detector.cls = "Comprehensive"
    /\ detector.use_geocoding
    /\ call.entry = "coordinates"
    /\ call.result = "Japan"
    /\ call.trace = <<>>

\* The call in progress has returned after three requests: two timeouts or
\* service errors and then a response with a country.
FailedTwiceThenFound ==
    LET rs == RequestsOf(call.trace)
    IN /\ call.pc = "returned"
       /\ call.max_retries = 3
       /\ Len(rs) = 3
       /\ rs[1].outcome \in Retryable
       /\ rs[2].outcome \in Retryable
       /\ rs[3].outcome = "country"

\* C6: with max_retries = 3, two timeouts or service errors followed by a
\* response with a country: the call returns that country (standardized by
\* pycountry where the class does so), the cache holds it, and the call slept
\* 1 s after the first failure and 2 s after the second.
C6_FailTwiceThenSucceed ==
    FailedTwiceThenFound
    => LET rs == RequestsOf(call.trace)
           bs == BackoffsOf(call.trace)
       IN /\ call.result \in {ExtractCountry(Address(o)) : o \in Addresses} \ {None}
          /\ call.key \in DOMAIN geocoding_cache
          /\ geocoding_cache[call.key] = call.result
          /\ Len(bs) = 2
          /\ bs[1].ms = 1000
          /\ bs[2].ms = 2000
          /\ bs[1].ms < bs[2].ms
          /\ IsBackoff(call.trace[4])
          /\ IsBackoff(call.trace[7])

C6_Witness == FailedTwiceThenFound /\ detector.cls = "Comprehensive"

\* C7: the requests made for a key never exceed the max_retries of the call
\* that entered the loop (2 resp. 3 when get_country_from_coordinates made the
\* call); a backoff sleep follows only a timeout or service error and is
\* itself followed by the next request, so no sleep follows the last allowed
\* attempt; a request after the first follows only such a sleep.
C7_RequestsBounded ==
    LET t == call.trace
    IN /\ \A k \in DOMAIN requests :
            /\ Len(Entries(k)) = 1
            /\ requests[k] <= Entries(k)[1].max_retries
            /\ Entries(k)[1].entry = "coordinates"
                 => Entries(k)[1].max_retries =
                      (IF detector.cls = "Comprehensive" THEN 2 ELSE 3)
       /\ Len(RequestsOf(t)) <= call.max_retries
       /\ \A i \in DOMAIN t :
            /\ IsBackoff(t[i]) =>
                 /\ i > 1 /\ IsRequest(t[i - 1]) /\ t[i - 1].outcome \in Retryable
                 /\ IF i = Len(t) THEN call.pc = "attempt"
                    ELSE i + 2 <= Len(t) /\ IsRequest(t[i + 2])
            /\ (IsRequest(t[i]) /\ i > 3) => IsBackoff(t[i - 2])

\* The default two attempts of the comprehensive detector both failed.
C7_Witness ==
    /\ call.pc = "returned"
    /\ call.entry = "coordinates"
    /\ detector.cls = "Comprehensive"
    /\ Count(requests, call.key) = 2
    /\ Last(RequestsOf(call.trace)).outcome \in Retryable
    /\ Len(BackoffsOf(call.trace)) = 1

\* The label of the bounding-box rules behind the geocoding stage.
Fallback(c, lat, lon) ==
    IF c = "Comprehensive" THEN get_detailed_geographical_country(lat, lon)
    ELSE get_country_from_geography(lat, lon)

\* The call in progress made requests and the last one gave no country.
EndedWithoutCountry ==
    /\ call.pc = "returned"
    /\ RequestsOf(call.trace) # <<>>
    /\ Last(RequestsOf(call.trace)).outcome # "country"

\* C8: the request loop goes on only after a timeout or service error; when a
\* call ends on another exception, on a response without a country or on its
\* last allowed attempt, get_country_with_geocoding returns None and caches
\* None, and get_country_from_coordinates returns the label of the
\* bounding-box rules.
C8_NoResultFallsBack ==
    LET rs == RequestsOf(call.trace)
    IN /\ call.pc = "attempt" => \A i \in DOMAIN rs : rs[i].outcome \in Retryable
       /\ EndedWithoutCountry =>
            /\ \A i \in 1..(Len(rs) - 1) : rs[i].outcome \in Retryable
            /\ Last(rs).outcome \in Retryable => Len(rs) = call.max_retries
            /\ call.key \in DOMAIN geocoding_cache
            /\ geocoding_cache[call.key] = None
            /\ Last(call.trace).kind = "cache_write"
            /\ call.result = IF call.entry = "geocoding" THEN None
                             ELSE Fallback(detector.cls, call.lat.v, call.lon.v)

\* A lookup of get_country_from_coordinates ended on another exception and
\* the rules labeled the point.
C8_Witness ==
    /\ EndedWithoutCountry
    /\ call.entry = "coordinates"
    /\ Last(RequestsOf(call.trace)).outcome = "other_exception"
    /\ call.result = "Turkey"

\* The Country of a selected row before the row loop.
PriorCountry(i) ==
    IF args.has_country /\ ~args.force_update THEN input[i].Country ELSE "Unknown"

\* The rows labeled so far are the first processed_count selected rows, with
\* the labels the detector returned; the other selected rows are as they were.
LabeledPrefix(table) ==
    /\ processed_count = Len(labels)
    /\ processed_count <= Len(rows_to_process)
    /\ \A i \in 1..(Len(rows_to_process) - 1) : rows_to_process[i] < rows_to_process[i + 1]
    /\ \A i \in DOMAIN rows_to_process :
          table[rows_to_process[i]].Country =
              IF i <= processed_count THEN labels[i] ELSE PriorCountry(rows_to_process[i])

\* C9: after a KeyboardInterrupt in the row loop of analyze_and_update_database
\* the run goes to the final save; it ends only by returning with the output
\* written or by a failure of that write; the table written holds the labels
\* of the rows labeled so far, a prefix in row order of the selected rows.
C9_InterruptSavesPrefix ==
    args.interrupted
    => /\ pc \in {"final_save", "done", "crashed"}
       /\ pc = "crashed" => LastWrite = "final_failed"
       /\ LabeledPrefix(df)
       /\ pc = "done" => /\ LastWrite = "final"
                         /\ output_disk.exists
                         /\ Len(output_disk.rows) = Len(input)
                         /\ LabeledPrefix(output_disk.rows)

\* An interrupted run has saved a table with some but not all rows labeled.
C9_Witness ==
    /\ args.interrupted
    /\ pc = "done"
    /\ processed_count >= 1
    /\ processed_count < Len(rows_to_process)
    /\ output_disk = to_csv(df)

\* C10: when an error other than a KeyboardInterrupt ends the row loop of
\* analyze_and_update_database (a periodic write of the output that raises),
\* the run goes on to attempt the final save.
C10_FatalErrorStillSaves ==
    (pc = "crashed" /\ \E i \in DOMAIN io_log : io_log[i] = "periodic_failed")
    => LastWrite \in {"final", "final_failed"}

\* C11: when a KeyboardInterrupt has ended the row loop of
\* process_earthquake_database in a geocoding run, the output file holds the
\* table and, if the cache has entries, the cache file holds the cache.
C11_ProcessInterruptFlushes ==
    (pc = "process_aborted" /\ detector.use_geocoding)
    => /\ output_disk = to_csv(df)
       /\ DOMAIN geocoding_cache # {} => cache_disk = JsonDump(geocoding_cache)

\* A Country value that stands for "no label yet".
NeedsLabel(c) == c \in {None, "Unknown", "Unknown Region"}

\* analyze_and_update_database is past its setup and keeps existing labels.
KeepsLabels ==
    /\ args.loaded
    /\ detector.cls = "Comprehensive"
    /\ pc \in {"loop", "final_save", "done", "crashed"}
    /\ args.has_country
    /\ ~args.force_update

C12_Frame ==
    KeepsLabels
    => /\ Len(df) = Len(input)
       /\ \A j \in DOMAIN rows_to_process : NeedsLabel(input[rows_to_process[j]].Country)
       /\ \A i \in DOMAIN input :
             ~NeedsLabel(input[i].Country)
             => /\ df[i].Country = input[i].Country
                /\ \A j \in DOMAIN rows_to_process : rows_to_process[j] # i
                /\ output_disk.exists => /\ Len(output_disk.rows) = Len(input)
                                          /\ output_disk.rows[i].Country = input[i].Country

\* A step of the row loop that calls the detector calls it for the next
\* selected row, a row without a label.
C12_CallsOnlySelected ==
    (KeepsLabels /\ pc = "loop" /\ call.pc = "idle" /\ call'.pc # "idle")
    => /\ pos = processed_count + 1
       /\ pos \in DOMAIN rows_to_process
       /\ call'.lat = input[rows_to_process[pos]].Latitude
       /\ call'.lon = input[rows_to_process[pos]].Longitude
       /\ NeedsLabel(input[rows_to_process[pos]].Country)

\* C12: in analyze_and_update_database with force_update false and a Country
\* column, only rows whose Country is missing, "Unknown" or "Unknown Region"
\* are selected and handed to the detector; every other row keeps its Country
\* in the table and in the output file.
C12_OnlyUnlabeledResolved == []C12_Frame /\ [][C12_CallsOnlySelected]_vars

\* A geocoding run has ended with a labeled row kept and another row resolved.
C12_Witness ==
    /\ KeepsLabels
    /\ pc = "done"
    /\ detector.use_geocoding
    /\ processed_count >= 1
    /\ output_disk = to_csv(df)
    /\ \E i \in DOMAIN input : input[i].Country = "Turkiye" /\ df[i].Country = "Turkiye"

\* A second run on the output of the first has reached its end.
SecondRunEnded == previous_output.exists /\ pc \in {"final_save", "done"}

\* The table of the second run is the table the first run wrote, and so is
\* the output file once the run has returned.
SameAsFirstRun ==
    /\ df = previous_output.rows
    /\ pc = "done" => output_disk = previous_output
    /\ \A i \in DOMAIN df :
          ~NeedsLabel(previous_output.rows[i].Country) => ~NeedsLabel(df[i].Country)

Unsaved ==
    {k \in DOMAIN geocoding_cache :
        ~(/\ cache_disk.readable
          /\ k \in DOMAIN JsonLoad(cache_disk)
          /\ JsonLoad(cache_disk)[k] = geocoding_cache[k])}

\* C14: while a ComprehensiveCountryDetector with geocoding and a cache file
\* is in use and no write of the cache file has failed, fewer than 10 entries
\* of the in-memory cache, positive or negative, are missing from the file.
C14_FewerThanTenUnsaved ==
    (/\ detector.cls = "Comprehensive"
     /\ detector.use_geocoding
     /\ detector.cache_file
     /\ cache_disk # Corrupt)
    => Cardinality(Unsaved) < SaveCacheEvery

\* The number of processed rows whose labels the last periodic write covers.
SavedCount == processed_count - (processed_count % SaveEvery)

\* C15: in the row loop of a geocoding run of analyze_and_update_database, and
\* after it up to the final save, the output file holds the table as it was
\* after the last multiple of 100 processed rows: the labels of all processed
\* rows but at most the last 99; before the 100th row the run has written
\* nothing.
C15_OutputEveryHundredRows ==
    (pc \in {"loop", "final_save"} /\ args.use_geocoding /\ LabeledPrefix(df))
    => /\ processed_count - SavedCount < SaveEvery
       /\ SavedCount = 0 => (output_disk = NoOutput /\ io_log = <<>>)
       /\ SavedCount > 0
            => /\ output_disk.exists
               /\ LastWrite = "periodic"
               /\ Len(output_disk.rows) = Len(df)
               /\ \A i \in DOMAIN rows_to_process :
                     output_disk.rows[rows_to_process[i]].Country =
                         IF i <= SavedCount THEN labels[i]
                         ELSE PriorCountry(rows_to_process[i])

\* The loop has gone one row past the hundredth; the file holds 100 labels.
C15_Witness ==
    /\ pc = "final_save"
    /\ args.use_geocoding
    /\ processed_count = SaveEvery + 1
    /\ output_disk.exists
    /\ output_disk.rows[SaveEvery].Country = labels[SaveEvery]
    /\ output_disk.rows[SaveEvery + 1].Country = "Unknown"
    /\ df[SaveEvery + 1].Country = labels[SaveEvery + 1]

\* The label of the two rule stages of ComprehensiveCountryDetector.
OfflineLabel(lat, lon) ==
    IF get_high_confidence_country(lat, lon) # "Uncertain"
    THEN get_high_confidence_country(lat, lon)
    ELSE get_detailed_geographical_country(lat, lon)

\* C16: a ComprehensiveCountryDetector with use_geocoding false makes no
\* request, never enters get_country_with_geocoding and leaves geocoding_cache
\* as the constructor loaded it; get_country_from_coordinates returns for two
\* numbers the high-confidence label if there is one and else the label of
\* get_detailed_geographical_country.
C16_OfflineIsPure ==
    (detector.cls = "Comprehensive" /\ ~detector.use_geocoding)
    => /\ requests = EmptyCache
       /\ loop_entries = EmptyCache
       /\ geocoding_cache = LoadedCache(detector.cache_file, cache_disk)
       /\ call.pc # "attempt"
       /\ call.trace = <<>>
       /\ call.key = NoKey
       /\ (call.pc = "returned" /\ call.entry = "coordinates" /\ NumericCall)
            => call.result = OfflineLabel(call.lat.v, call.lon.v)

\* An offline detector whose loaded cache holds an entry for the point has
\* labeled the point by the rules, as its second call.
C16_Witness ==
    /\ detector.cls = "Comprehensive"
    /\ ~detector.use_geocoding
    /\ calls_made = 2
    /\ call.pc = "returned"
    /\ call.lat = At(39, 0) /\ call.lon = At(35, 0)
    /\ cache_key("Comprehensive", call.lat.v, call.lon.v) \in DOMAIN geocoding_cache
    /\ call.result = "Turkey"

(***************************************************************************)
(* The rules as tables, in declaration order, and the grid properties.     *)
(***************************************************************************)

Rule(label, latlo, lathi, lonlo, lonhi) ==
    [label |-> label, box |-> <<latlo, lathi, lonlo, lonhi>>]

\* The country rules of CountryDetector.get_country_from_geography.
country_boxes ==
    << Rule("United States", 25, 49, -125, -66), Rule("United States", 55, 72, -168, -141),
       Rule("United States", 18, 23, -162, -154), Rule("Canada", 42, 84, -141, -52),
       Rule("Mexico", 14, 33, -118, -86), Rule("Japan", 24, 46, 122, 146),
       Rule("Indonesia", -11, 6, 95, 141), Rule("Philippines", 5, 21, 116, 127),
       Rule("Chile", -56, -17, -76, -66), Rule("New Zealand", -47, -34, 166, 179),
       Rule("Turkey", 36, 42, 26, 45), Rule("Italy", 36, 47, 6, 19),
       Rule("Greece", 34, 42, 19, 30), Rule("Iran", 25, 40, 44, 64),
       Rule("China", 18, 54, 73, 135), Rule("Russia", 41, 82, 19, 180),
       Rule("India", 6, 38, 68, 98), Rule("Australia", -44, -10, 112, 154),
       Rule("Papua New Guinea", -12, -1, 140, 160), Rule("Peru", -19, 0, -82, -68),
       Rule("Ecuador", -5, 2, -82, -75), Rule("Colombia", -5, 13, -80, -66),
       Rule("Venezuela", 0, 13, -74, -59), Rule("Brazil", -34, 6, -75, -30),
       Rule("Argentina", -55, -21, -74, -53) >>

\* The boxes of CountryDetector.get_regional_fallback.
fallback_boxes ==
    << Rule("Caribbean Region", 10, 25, -85, -60), Rule("Central America", 7, 18, -92, -77),
       Rule("Middle East", 12, 42, 25, 65), Rule("Southeast Asia", -15, 25, 90, 145),
       Rule("Northern Europe", 55, 75, -15, 45), Rule("Eastern Europe", 45, 70, 15, 50),
       Rule("Western Europe", 40, 60, -15, 20), Rule("North Africa", 15, 40, -20, 40),
       Rule("East Africa", -15, 20, 25, 55), Rule("West Africa", 0, 25, -25, 20),
       Rule("Southern Africa", -40, -15, 10, 40), Rule("Central Asia", 35, 55, 45, 85) >>

\* The country rules of ComprehensiveCountryDetector.get_high_confidence_country.
high_confidence_boxes ==
    << Rule("United States", 25, 49, -125, -66), Rule("United States", 55, 72, -168, -141),
       Rule("United States", 18, 23, -162, -154), Rule("Canada", 50, 84, -141, -52),
       Rule("Russia", 50, 82, 30, 180), Rule("Russia", 50, 82, -180, -169),
       Rule("China", 20, 50, 80, 130), Rule("Australia", -44, -10, 112, 154),
       Rule("Japan", 24, 46, 129, 146), Rule("Indonesia", -8, 6, 95, 141),
       Rule("Brazil", -34, 6, -75, -34) >>

\* The country rules of get_detailed_geographical_country.
detailed_boxes ==
    << Rule("Mexico", 14, 33, -118, -86), Rule("Philippines", 5, 21, 116, 127),
       Rule("Chile", -56, -17, -76, -66), Rule("Peru", -19, 0, -82, -68),
       Rule("Argentina", -55, -21, -74, -53), Rule("Turkey", 36, 42, 26, 45),
       Rule("Iran", 25, 40, 44, 64), Rule("India", 6, 38, 68, 98),
       Rule("New Zealand", -47, -34, 166, 179), Rule("Papua New Guinea", -12, -1, 140, 160),
       Rule("Italy", 36, 47, 6, 19), Rule("Greece", 34, 42, 19, 30) >>

\* The boxes of get_regional_classification.
regional_boxes ==
    << Rule("Caribbean Region", 10, 25, -85, -60), Rule("Central America", 7, 18, -92, -77),
       Rule("Middle East", 12, 42, 25, 65), Rule("Southeast Asia", -15, 25, 90, 145),
       Rule("Europe", 35, 75, -15, 45), Rule("Africa", -40, 40, -20, 55) >>

\* The point is in the closed box b (whole degrees).
Within(lat, lon, b) ==
    /\ b[1] * Scale <= lat /\ lat <= b[2] * Scale
    /\ b[3] * Scale <= lon /\ lon <= b[4] * Scale

\* The point is on an edge of the box b.
OnEdge(lat, lon, b) ==
    /\ Within(lat, lon, b)
    /\ lat \in {b[1] * Scale, b[2] * Scale} \/ lon \in {b[3] * Scale, b[4] * Scale}

Matches(rules, lat, lon) == {i \in DOMAIN rules : Within(lat, lon, rules[i].box)}

\* The label of the first of the rules that holds the point.
FirstLabel(rules, lat, lon) ==
    LET m == Matches(rules, lat, lon)
    IN rules[CHOOSE i \in m : \A j \in m : i <= j].label

RuleLabels(rules) == {rules[i].label : i \in DOMAIN rules}

\* A detector of class cls without geocoding has classified a grid point.
GridCall(cls) ==
    /\ pc = "classified"
    /\ call.pc = "returned"
    /\ detector.cls = cls
    /\ NumericCall

\* C17: for a point in the boxes of two or more country rules of
\* CountryDetector.get_country_from_geography the result is the label of the
\* rule declared first.
C17_FirstDeclaredWins ==
    (GridCall("Advanced")
     /\ Cardinality(Matches(country_boxes, call.lat.v, call.lon.v)) >= 2)
    => call.result = FirstLabel(country_boxes, call.lat.v, call.lon.v)

\* Lat 35, lon 130 is in the boxes of Japan and China and is labeled Japan.
C17_Witness ==
    /\ GridCall("Advanced")
    /\ call.lat = Num(Deg(35)) /\ call.lon = Num(Deg(130))
    /\ {"Japan", "China"} \subseteq
          {country_boxes[i].label : i \in Matches(country_boxes, call.lat.v, call.lon.v)}
    /\ call.result = "Japan"

\* A point on an edge of a box of the rules gets the label of the first rule
\* that holds it, and a country of the rules labels no point outside its boxes.
EdgesInclusive(rules) ==
    LET lat == call.lat.v
        lon == call.lon.v
    IN /\ (\E i \in DOMAIN rules : OnEdge(lat, lon, rules[i].box))
            => call.result = FirstLabel(rules, lat, lon)
       /\ call.result \in RuleLabels(rules)
            => \E i \in Matches(rules, lat, lon) : rules[i].label = call.result

\* C18: the boxes of the country rules of both detectors are closed: a point
\* on an edge of a box matches the rule, a point on an edge shared by two
\* boxes gets the label of the rule declared first, a point 0.001 degrees
\* outside is not matched; lat 25, lon -125 is "United States" and lat 24.999,
\* lon -125 is not.
C18_EdgesInclusive ==
    /\ GridCall("Advanced") => EdgesInclusive(country_boxes)
    /\ GridCall("Comprehensive") => EdgesInclusive(high_confidence_boxes)
    /\ (GridCall("Advanced") \/ GridCall("Comprehensive"))
         => /\ (call.lat.v = 25 * Scale /\ call.lon.v = -125 * Scale)
                 => call.result = "United States"
            /\ (call.lat.v = 25 * Scale - 10 /\ call.lon.v = -125 * Scale)
                 => call.result # "United States"

\* The corner lat 25, lon -125 of the continental box is "United States".
C18_Witness ==
    /\ GridCall("Advanced")
    /\ call.lat.v = 25 * Scale /\ call.lon.v = -125 * Scale
    /\ OnEdge(call.lat.v, call.lon.v, country_boxes[1].box)
    /\ call.result = "United States"

\* C19: get_country_from_coordinates of both detectors and
\* get_country_from_coordinates_simple return "Unknown" for a latitude or
\* longitude that is missing (None, NaN) or that float() cannot convert; the
\* call makes no cache lookup and no request.
C19_InvalidIsUnknown ==
    (call.pc \in {"attempt", "returned"} /\ ~NumericCall)
    => /\ call.pc = "returned"
       /\ call.entry \in {"coordinates", "simple"}
       /\ call.result = "Unknown"
       /\ call.trace = <<>>
       /\ call.key = NoKey

\* A call with such a coordinate leaves the cache, the cache file and the
\* request counts alone.
C19_InvalidChangesNothing ==
    (call' # call /\ call'.pc # "idle"
     /\ (call'.lat.kind # "num" \/ call'.lon.kind # "num"))
    => UNCHANGED <<geocoding_cache, cache_disk, requests, loop_entries>>

C19_InvalidInputShortCircuits == []C19_InvalidIsUnknown /\ [][C19_InvalidChangesNothing]_vars

\* A detector with geocoding enabled was given a missing latitude.
C19_Witness ==
    /\ detector.use_geocoding
    /\ call.pc = "returned"
    /\ call.lat = NaN
    /\ call.result = "Unknown"
    /\ requests = EmptyCache

\* No rule of CountryDetector holds the point.
NoRuleAdvanced(lat, lon) ==
    /\ Matches(country_boxes, lat, lon) = {}
    /\ ~is_in_ocean(lat, lon)
    /\ Matches(fallback_boxes, lat, lon) = {}
    /\ lat > -60 * Scale /\ lat < 75 * Scale

\* No rule of ComprehensiveCountryDetector holds the point.
NoRuleComprehensive(lat, lon) ==
    /\ Matches(high_confidence_boxes, lat, lon) = {}
    /\ ~is_definitely_ocean(lat, lon)
    /\ Matches(detailed_boxes, lat, lon) = {}
    /\ Matches(regional_boxes, lat, lon) = {}
    /\ lat > -60 * Scale /\ lat < 70 * Scale
    /\ Abs(lon) <= 90 * Scale /\ Abs(lat) <= 60 * Scale

\* C20: for two numbers in range the detectors without geocoding return a
\* label other than "Unknown"; the label is "Unknown Region" exactly for
\* the points that no country, ocean or region rule holds.
C20_NeverUnknownInRange ==
    /\ (GridCall("Advanced") /\ InRange(call.lat.v, call.lon.v))
         => /\ call.result \notin {"Unknown", None}
            /\ call.result = "Unknown Region" <=> NoRuleAdvanced(call.lat.v, call.lon.v)
    /\ (GridCall("Comprehensive") /\ InRange(call.lat.v, call.lon.v))
         => /\ call.result \notin {"Unknown", None}
            /\ call.result = "Unknown Region" <=> NoRuleComprehensive(call.lat.v, call.lon.v)

\* A point in range that no rule of CountryDetector holds.
C20_Witness ==
    /\ GridCall("Advanced")
    /\ InRange(call.lat.v, call.lon.v)
    /\ NoRuleAdvanced(call.lat.v, call.lon.v)
    /\ call.result = "Unknown Region"

\* C21: in CountryDetector an ocean point (no country rule holds it and
\* is_in_ocean is true) with lat <= -50 is named "Southern Ocean" and one with
\* lat >= 70 is named "Arctic Ocean", whatever its longitude.
C21_PolarBeforeBasin ==
    (/\ GridCall("Advanced")
     /\ InRange(call.lat.v, call.lon.v)
     /\ Matches(country_boxes, call.lat.v, call.lon.v) = {}
     /\ is_in_ocean(call.lat.v, call.lon.v))
    => /\ call.lat.v <= -50 * Scale => call.result = "Southern Ocean"
       /\ call.lat.v >= 70 * Scale => call.result = "Arctic Ocean"

\* The point reaches the regional stage of ComprehensiveCountryDetector: the
\* high-confidence stage gives no label and no detailed country rule holds it.
ReachesRegionalStage(lat, lon) ==
    /\ Matches(high_confidence_boxes, lat, lon) = {}
    /\ ~is_definitely_ocean(lat, lon)
    /\ Matches(detailed_boxes, lat, lon) = {}

\* "abs(lon) > 90 or abs(lat) > 60", the ocean test of the regional stage.
OceanFallbackHolds(lat, lon) == Abs(lon) > 90 * Scale \/ Abs(lat) > 60 * Scale

\* C22: in the detailed stage of ComprehensiveCountryDetector the ocean test
\* comes before the macro-region rules: a point that no detailed country rule
\* holds and that satisfies the ocean test gets the ocean name, also when a
\* macro-region rule holds it.
C22_OceanBeforeRegion ==
    (/\ GridCall("Comprehensive")
     /\ InRange(call.lat.v, call.lon.v)
     /\ ReachesRegionalStage(call.lat.v, call.lon.v)
     /\ OceanFallbackHolds(call.lat.v, call.lon.v))
    => call.result = get_ocean_name(call.lat.v, call.lon.v)

\* A detector without geocoding has returned from get_country_from_coordinates
\* for the point (lat, lon), given in whole degrees.
OfflineResultAt(lat, lon) ==
    /\ call.pc = "returned"
    /\ call.entry = "coordinates"
    /\ ~detector.use_geocoding
    /\ call.lat = At(lat, 0) /\ call.lon = At(lon, 0)

PacificLabels ==
    {"North Pacific Ocean", "South Pacific Ocean", "Equatorial Pacific Ocean", "Pacific Ocean"}

\* C23: without geocoding both detectors label (35, 139) "Japan" and (0, -160)
\* with a Pacific name: ComprehensiveCountryDetector "North Pacific Ocean",
\* CountryDetector "Equatorial Pacific Ocean".
C23_TokyoAndOpenPacific ==
    /\ OfflineResultAt(35, 139) => call.result = "Japan"
    /\ OfflineResultAt(0, -160)
         => /\ call.result \in PacificLabels
            /\ call.result = IF detector.cls = "Comprehensive" THEN "North Pacific Ocean"
                             ELSE "Equatorial Pacific Ocean"

\* A ComprehensiveCountryDetector without geocoding has labeled the open
\* Pacific as its second call.
C23_Witness ==
    /\ pc = "client"
    /\ detector.cls = "Comprehensive"
    /\ calls_made = 2
    /\ OfflineResultAt(0, -160)
    /\ call.result = "North Pacific Ocean"

\* The row loop of process_earthquake_database or of
\* process_earthquake_data_simple has been set up for a table with a Country
\* column.
SiblingBatchOnLabeledTable ==
    /\ pc \in {"process_loop", "process_final_save", "process_done",
               "simple_loop", "simple_done"}
    /\ args.loaded
    /\ args.has_country

\* C24: process_earthquake_database and process_earthquake_data_simple select
\* for processing every row whose Country is "Unknown Region".
C24_UnknownRegionReprocessed ==
    SiblingBatchOnLabeledTable
    => \A i \in DOMAIN input :
          input[i].Country = "Unknown Region"
          => \E k \in DOMAIN rows_to_process : rows_to_process[k] = i

\* A run of analyze_and_update_database has selected at least one row and has
\* ended.
AnalyzeEndedWithRows ==
    /\ pc \in {"done", "crashed"}
    /\ args.loaded
    /\ Len(rows_to_process) >= 1

\* C25: without geopy, a run of analyze_and_update_database that has at least
\* one row to process ends by return, never in an unhandled error, having
\* labeled the selected rows and written the output table.
C25_CompletesWithoutGeopy ==
    (~GEOPY_AVAILABLE /\ AnalyzeEndedWithRows /\ ~args.interrupted)
    => /\ pc = "done"
       /\ Len(labels) = Len(rows_to_process)
       /\ output_disk = to_csv(df)

\* The central Pacific: -40 <= lat <= 40 and a longitude from 140 eastward
\* across the antimeridian to -120.
CentralPacific(lat, lon) ==
    /\ -40 * Scale <= lat /\ lat <= 40 * Scale
    /\ \/ 140 * Scale <= lon /\ lon <= 180 * Scale
       \/ -180 * Scale <= lon /\ lon <= -120 * Scale

\* C26: ComprehensiveCountryDetector.get_country_from_coordinates labels a
\* central-Pacific point with a Pacific name in the high-confidence stage,
\* with no cache lookup and no request, also when geocoding is enabled.
C26_CentralPacificIsOcean ==
    (/\ call.pc \in {"attempt", "returned"}
     /\ detector.cls = "Comprehensive"
     /\ call.entry = "coordinates"
     /\ NumericCall
     /\ CentralPacific(call.lat.v, call.lon.v))
    => /\ call.pc = "returned"
       /\ call.result \in PacificLabels
       /\ call.trace = <<>>
       /\ call.key = NoKey

\* The stations fetch_seismic_data was called for so far.
AttemptedStations == {fetch_log[i].station : i \in DOMAIN fetch_log}

\* The station loop has ended.
StationLoopEnded == fetch_pc = "metadata" \/ metadata_log # <<>>

\* At most five stations are attempted, in order of distance, and none of
\* them is farther from the event than a station that was found and is not
\* attempted in the end.
NearestFiveInOrder ==
    /\ Cardinality(AttemptedStations) <= 5
    /\ \A i \in 1..(Len(fetch_log) - 1) :
          fetch_log[i].distance_km <= fetch_log[i + 1].distance_km
    /\ StationLoopEnded
         => LET found == Collect(clients, 1)
                farthest == fetch_log[Len(fetch_log)].distance_km
            IN /\ fetch_log # <<>>
               /\ \A k \in DOMAIN found :
                     found[k].station \notin AttemptedStations
                     => /\ Cardinality(AttemptedStations) = 5
                        /\ farthest <= found[k].distance_km

\* Each station is asked once for the window before the event and, next and
\* unless the write of that window's file raised, for the window after it.
BeforeThenAfter ==
    \A i \in DOMAIN fetch_log :
       LET e == fetch_log[i]
       IN IF e.window = "before"
          THEN /\ e.start = earthquake_time - 7 /\ e.end = earthquake_time
               /\ \A j \in 1..(i - 1) : fetch_log[j].station # e.station
          ELSE /\ e.window = "after"
               /\ e.start = earthquake_time /\ e.end = earthquake_time + 7
               /\ i > 1
               /\ fetch_log[i - 1].station = e.station
               /\ fetch_log[i - 1].window = "before"

\* metadata.json is written once, when the loop has ended, with the list of
\* the files whose write completed.
MetadataOnceAtEnd ==
    LET IsBefore(f) == f[1] = "before"
        IsAfter(f) == f[1] = "after"
    IN /\ Len(metadata_log) <= 1
       /\ fetch_pc = "returned" => Len(metadata_log) = 1 /\ metadata_log[1].complete
       /\ (fetch_pc = "returned_none" /\ stations # <<>>) => Len(metadata_log) = 1
       /\ data_fetched.before = SelectSeq(written, IsBefore)
       /\ data_fetched.after = SelectSeq(written, IsAfter)
       /\ metadata_log # <<>> => metadata_log[1].data_fetched = data_fetched

\* Once metadata.json is written no station is attempted and no file written.
NothingAfterMetadata ==
    metadata_log # <<>> => UNCHANGED <<fetch_log, written, data_fetched, metadata_log>>

LookupGaveNothing ==
    /\ call.key \in DOMAIN geocoding_cache
    /\ geocoding_cache[call.key] = None

\* C28: ComprehensiveCountryDetector.get_country_from_coordinates never
\* returns "Uncertain": when the high-confidence stage gives "Uncertain" and
\* geocoding is disabled or the lookup gave no country, the result is the
\* label of get_detailed_geographical_country; no row of a table is labeled
\* "Uncertain".
C28_UncertainNeverReturned ==
    /\ (/\ call.pc = "returned"
        /\ call.entry = "coordinates"
        /\ detector.cls = "Comprehensive")
       => /\ call.result # "Uncertain"
          /\ (/\ NumericCall
              /\ get_high_confidence_country(call.lat.v, call.lon.v) = "Uncertain"
              /\ (~detector.use_geocoding \/ LookupGaveNothing))
             => /\ call.result = get_detailed_geographical_country(call.lat.v, call.lon.v)
                /\ get_detailed_geographical_country(call.lat.v, call.lon.v) # "Uncertain"
    /\ \A i \in DOMAIN labels : labels[i] # "Uncertain"
    /\ \A i \in DOMAIN df : df[i].Country # "Uncertain"

\* The open Pacific, with geocoding enabled: the lookup gave no country and
\* the detailed stage named the ocean.
C28_Witness ==
    /\ call.pc = "returned"
    /\ call.entry = "coordinates"
    /\ detector.cls = "Comprehensive"
    /\ detector.use_geocoding
    /\ call.lat = At(0, 0) /\ call.lon = At(-160, 0)
    /\ get_high_confidence_country(call.lat.v, call.lon.v) = "Uncertain"
    /\ LookupGaveNothing
    /\ Count(requests, call.key) >= 1
    /\ call.result = "North Pacific Ocean"

\* get_country_from_coordinates_simple has classified a grid point.
SimpleGridCall ==
    /\ pc = "classified_simple"
    /\ call.pc = "returned"
    /\ call.entry = "simple"
    /\ NumericCall

\* The names get_ocean_region gives.
SimpleOceanNames ==
    {"North Pacific Ocean", "South Pacific Ocean", "North Atlantic Ocean",
     "South Atlantic Ocean", "Indian Ocean", "Arctic Ocean", "Southern Ocean", "Ocean"}

\* The labels of the six continental branches, 'Mexico' left out.
SimpleContinentalLabels ==
    {"Canada/Alaska", "Canada", "United States (Eastern)", "United States (Western)",
     "North America", "Northern South America", "Central South America",
     "Southern South America", "Northern Europe", "Central Europe", "Southern Europe",
     "Northern Asia/Russia", "Central Asia", "East Asia", "South Asia", "Middle East",
     "Asia", "Northern Africa", "Central Africa", "Southern Africa", "Australia",
     "Oceania/Pacific Islands"}

\* The point is in none of the six continental boxes.
OutsideContinents(lat, lon) ==
    \A i \in DOMAIN continental_regions : ~Within(lat, lon, continental_regions[i])

\* C29: for two numbers get_country_from_coordinates_simple returns a name of
\* get_ocean_region exactly when the point is outside the six continental
\* boxes, and else a label of a continental branch; it never returns
\* "Mexico", "Pacific Ocean Region", "Antarctica", "Arctic" or "Unknown Region".
C29_SimpleOceanOrContinent ==
    SimpleGridCall
    => /\ OutsideContinents(call.lat.v, call.lon.v) => call.result \in SimpleOceanNames
       /\ ~OutsideContinents(call.lat.v, call.lon.v)
             => call.result \in SimpleContinentalLabels
       /\ call.result \notin {"Mexico", "Pacific Ocean Region", "Antarctica", "Arctic",
                              "Unknown Region", "Unknown"}

\* Lat 30, lon -100 is in the box of the Mexico branch and is labeled by the
\* branch of the United States before it.
C29_Witness ==
    /\ SimpleGridCall
    /\ call.lat = Num(30 * Scale) /\ call.lon = Num(-100 * Scale)
    /\ Within(call.lat.v, call.lon.v, <<15, 32, -118, -86>>)
    /\ call.result = "United States (Western)"

\* A fact about the rules, evaluated for the points of the grid: the
\* high-confidence stage names every point with lat <= -50 "Southern Ocean",
\* and the two rule stages give no point the label "Antarctica".
SouthOfFiftyOnGrid ==
    \A lat \in GridLat, lon \in GridLon :
       /\ lat <= -50 * Scale => get_high_confidence_country(lat, lon) = "Southern Ocean"
       /\ OfflineLabel(lat, lon) # "Antarctica"

\* C30: ComprehensiveCountryDetector.get_country_from_coordinates labels two
\* numbers with lat <= -50 "Southern Ocean" in the high-confidence stage, with
\* no cache lookup and no request, also when geocoding is enabled; south of
\* -50 it returns neither "Chile" nor "Argentina", and it never returns
\* "Antarctica".
C30_SouthernOceanShadows ==
    /\ pc = "init" => SouthOfFiftyOnGrid
    /\ (/\ call.pc \in {"attempt", "returned"}
        /\ call.entry = "coordinates"
        /\ detector.cls = "Comprehensive"
        /\ NumericCall)
       => /\ call.result # "Antarctica"
          /\ call.lat.v <= -50 * Scale
               => /\ call.pc = "returned"
                  /\ call.result = "Southern Ocean"
                  /\ call.trace = <<>>
                  /\ call.key = NoKey

\* Tierra del Fuego, in the boxes of the Chile and Argentina rules, with
\* geocoding enabled: "Southern Ocean" with no request.
C30_Witness ==
    /\ call.pc = "returned"
    /\ call.entry = "coordinates"
    /\ detector.cls = "Comprehensive"
    /\ detector.use_geocoding
    /\ call.lat = At(-55, 0) /\ call.lon = At(-70, 0)
    /\ Within(call.lat.v, call.lon.v, <<-56, -17, -76, -66>>)
    /\ Within(call.lat.v, call.lon.v, <<-55, -21, -74, -53>>)
    /\ call.result = "Southern Ocean"
    /\ requests = EmptyCache

=============================================================================
